---- MODULE Spec2Model ----
(***************************************************************************)
(* A model of the tradex session bridge:                                   *)
(*   - TradexApp.init_extensions_from_config   (extension registry)        *)
(*   - TradexApp.prompt_for_tool_approval and ToolUseApprovalBlock         *)
(*     (approval gate)                                                     *)
(*   - AgentController._safe_call               (cross-thread dispatcher)  *)
(*   - TradexApp.on_input_submitted, handle_user_input, handle_message,    *)
(*     _append_session_event, _save_session_history, on_exit               *)
(*     (session lifecycle and event classifier)                            *)
(*   - TradexApp._format_duration, _json_safe, init (pure helpers, start   *)
(*     of a run)                                                           *)
(* Each component has its own specification over the shared variables:     *)
(* ExtSpec, DispatchSpec, DispatchNoIdentitySpec, GateSpec, SessionSpec,   *)
(* DurationSpec, JsonSpec, WorkdirSpec, StartupSpec.                       *)
(***************************************************************************)
EXTENDS Integers, Sequences, FiniteSets, TLC

VARIABLES
    \* ---- extension registry (init_extensions_from_config) ----
    ext_modules,     \* extension_config: declared extension i -> kind of its module
    ext_enabled,     \* extension_enabled: the set of enabled extension names
    ext_ctx,         \* TRUE when the caller passes ctx (tradex-cli), FALSE for ctx=None
    load_pc,         \* "idle" | "loop" | "returned" | "raised" | "connected"
    load_i,          \* position of the for loop over extension_config.items()
    mcp_servers,     \* the dict mcp_servers: MCP name -> tool-server handle
    allowed_tools,   \* the list allowed_tools
    imported,        \* modules handed to importlib.import_module, in order
    init_calls,      \* calls of init_extension: [ext, nargs, raised, type_error], in order
    load_log,        \* add_log_message lines of the load (0: the banner, i: extension i)
    agent_options,   \* what ClaudeAgentOptions received: [mcp_servers, allowed_tools] or NoOptions
    \* ---- UI toolkit state read by the dispatcher ----
    ui_phase,        \* "created" | "running" | "exited"; app.is_running is ui_phase = "running"
    app_thread_id,   \* app._thread_id: NoThread until the toolkit starts its loop
    \* ---- dispatcher (AgentController._safe_call) ----
    dispatch_log,    \* one record per _safe_call made through the public controller API
    \* ---- approval gate ----
    ap_pc,           \* per request: "idle" | "awaiting" | "allow" | "deny" | "failed"
    ap_future,       \* per request, its asyncio.Future: "NONE" | "PENDING" | "True" | "False"
    ap_widget,       \* per request, its ToolUseApprovalBlock: [mounted, disabled]
    ap_selected,     \* per widget, the ListView.Selected messages posted and not yet handled
    ap_resolved_by,  \* per request, the index of the selection that resolved it (NoIndex: none)
    ap_rejected,     \* per widget, the set_result calls that raised InvalidStateError
    n_selections,    \* selections the operator has made so far
    \* ---- session lifecycle and event classifier (TradexApp) ----
    init_pc,         \* init(): "pending" | "connecting" | "ready" | "failed"
    session_id,      \* self.session_id: NoSession until init() creates the session
    session_history, \* self.session_history: records [event, payload] with two ghost
                     \* fields: src (position of the trigger in observed), ctx (who appended)
    observed,        \* ghost: user submissions and backend events, in the order observed
    ui_log,          \* UI actions made by the input handler, the worker and the classifier
    work_indicator,  \* the working-progress indicator: [on, message]
    claude_client,   \* self.claude_client: "none" | "constructed" | "connected" | "disconnected"
    workers,         \* per run_worker(handle_user_input): "scheduled" | "receiving" | "returned" | "raised"
    persisted,       \* the session objects written to history.json, one per completed write
    exit_result,     \* on_exit: "pending" | "disconnecting" | "returned" | "raised"
    \* ---- configuration ----
    config,          \* self.config: what load_config returned, section -> "table" | "absent"
    \* ---- static helpers evaluated on their own (_format_duration, ...) ----
    arg,             \* the argument the helper is called with
    result           \* what the call returned (<<>>: not called yet)

ext_vars == <<ext_modules, ext_enabled, ext_ctx, load_pc, load_i, mcp_servers,
              allowed_tools, imported, init_calls, load_log, agent_options>>

ui_vars == <<ui_phase, app_thread_id>>

gate_vars == <<ap_pc, ap_future, ap_widget, ap_selected, ap_resolved_by, ap_rejected,
               n_selections>>

session_vars == <<init_pc, session_id, session_history, observed, ui_log, work_indicator,
                  claude_client, workers, persisted, exit_result>>

helper_vars == <<arg, result>>

vars == <<ext_vars, ui_vars, dispatch_log, gate_vars, session_vars, helper_vars, config>>

----------------------------------------------------------------------------
(* Bounds *)

\* number of extensions declared in the [extensions] table
NumExt == 2

\* number of _safe_call calls made through the controller API
MaxDispatches == 3

\* size of what a session observes: one for each user submission and backend
\* event, and one more for each content item of a message after its first
MaxEvents == 3

\* largest hours component of the durations formatted
MaxHours == 2

\* deepest nesting of containers in the values reduced by _json_safe
MaxNesting == 2

\* number of tool-approval requests of a session
MaxApprovals == 2

\* number of selections the operator makes on approval widgets
MaxSelections == 3

----------------------------------------------------------------------------
(* UI toolkit and cross-thread dispatcher (AgentController._safe_call) *)

\* execution contexts: threading.get_ident() of the UI loop's thread and of a
\* worker thread; NoThread is an identity the attribute lookup did not yield
UiThread == "ui"
WorkerThread == "worker"
NoThread == "none"
Threads == {UiThread, WorkerThread}

\* zero-argument UI actions handed to _safe_call by the controller methods
UiActions == {"add_message", "add_log_message"}

\* getattr(self.app, "is_running", False)
IsRunning == ui_phase = "running"

\* getattr(driver, "_thread_id", None) or getattr(driver, "thread_id", None):
\* the toolkit's driver carries no thread identity
DriverThreadId == NoThread

\* What app.call_from_thread(fn) does for a caller on thread cur: it refuses a
\* caller on the loop's own thread with RuntimeError("The `call_from_thread`
\* method must run in a different thread from the app"); from another thread it
\* runs fn on the loop and returns ("ok"), or runs fn, which raises, and
\* re-raises fn's error in the caller ("action_error"), or raises another
\* error without having run fn ("other_error").
CallFromThreadOutcomes(cur) ==
    IF cur = UiThread THEN {"reentrant_error"} ELSE {"ok", "action_error", "other_error"}

\* call_from_thread ran fn on the loop
RanOnLoop(cft) == cft \in {"ok", "action_error"}

\* a dispatcher that never takes the not-running shortcut
C8_NotRunningIgnored(running) == FALSE

\* if not getattr(self.app, "is_running", False): fn(); return
NotRunningBranch(running) == ~running

\* app_thread_id, with the driver's identity as the fallback
OwnerThreadId(app_tid, drv_tid) == IF app_tid # NoThread THEN app_tid ELSE drv_tid

\* a dispatcher whose identity comparison never matches
C9_SameThreadNeverMatches(app_tid, drv_tid, cur) == FALSE

\* if app_thread_id is not None and app_thread_id == current_thread_id: fn(); return
SameThreadBranch(app_tid, drv_tid, cur) ==
    /\ OwnerThreadId(app_tid, drv_tid) # NoThread
    /\ OwnerThreadId(app_tid, drv_tid) = cur

\* a dispatcher whose except clause runs fn inline after any error
C10_MarshalSwallowsEveryError(fn, cft) ==
    [inline |-> IF cft = "ok" THEN <<>> ELSE <<fn>>, marshalled |-> <<fn>>, raised |-> FALSE]

\* a dispatcher whose except clause drops every error it does not recover from
C11_MarshalDropsOtherErrors(fn, cft) ==
    [inline |-> IF cft = "reentrant_error" THEN <<fn>> ELSE <<>>,
     marshalled |-> <<fn>>, raised |-> FALSE]

\* a dispatcher whose except clause re-raises every RuntimeError
C12_MarshalReraisesAll(fn, cft) ==
    [inline |-> <<>>, marshalled |-> <<fn>>, raised |-> cft # "ok"]

\* a dispatcher that runs the action inline after the action failed on the loop
C37_RetriesFailedAction(fn, cft) ==
    CASE cft = "ok" -> [inline |-> <<>>, marshalled |-> <<fn>>, raised |-> FALSE]
      [] cft = "reentrant_error" -> [inline |-> <<fn>>, marshalled |-> <<fn>>, raised |-> FALSE]
      [] cft = "action_error" -> [inline |-> <<fn>>, marshalled |-> <<fn>>, raised |-> FALSE]
      [] OTHER -> [inline |-> <<>>, marshalled |-> <<fn>>, raised |-> TRUE]

\* try: self.app.call_from_thread(fn) except RuntimeError: inline when the
\* message names call_from_thread, else re-raise.
\* The result: the actions run inline in the caller's context, the actions
\* handed to call_from_thread, and whether an error leaves _safe_call.
MarshalBranch(fn, cft) ==
    CASE cft = "ok" -> [inline |-> <<>>, marshalled |-> <<fn>>, raised |-> FALSE]
      [] cft = "reentrant_error" -> [inline |-> <<fn>>, marshalled |-> <<fn>>, raised |-> FALSE]
      [] OTHER -> [inline |-> <<>>, marshalled |-> <<fn>>, raised |-> TRUE]

\* fn(*args, **kwargs); return
InlineBranch(fn) == [inline |-> <<fn>>, marshalled |-> <<>>, raised |-> FALSE]

\* AgentController._safe_call(fn) called on thread cur, where call_from_thread
\* would end as cft
SafeCall(running, app_tid, drv_tid, cur, fn, cft) ==
    IF NotRunningBranch(running) THEN InlineBranch(fn)
    ELSE IF SameThreadBranch(app_tid, drv_tid, cur) THEN InlineBranch(fn)
    ELSE MarshalBranch(fn, cft)

\* the state of a constructed App that has not been run
UiCreated ==
    /\ ui_phase = "created"
    /\ app_thread_id = NoThread

\* the state inside on_ready and after it: the loop runs on the UI thread
UiRunning ==
    /\ ui_phase = "running"
    /\ app_thread_id = UiThread

DispatchIdle == dispatch_log = <<>>

\* app.run(): the toolkit starts its loop on the calling thread
UiRun ==
    /\ ui_phase = "created"
    /\ ui_phase' = "running"
    /\ app_thread_id' = UiThread
    /\ UNCHANGED <<ext_vars, dispatch_log, gate_vars, session_vars, helper_vars, config>>

\* app.run() of a toolkit build whose App and driver carry no thread identity:
\* getattr(self.app, "_thread_id", None) and both driver lookups yield None
UiRunNoIdentity ==
    /\ ui_phase = "created"
    /\ ui_phase' = "running"
    /\ app_thread_id' = NoThread
    /\ UNCHANGED <<ext_vars, dispatch_log, gate_vars, session_vars, helper_vars, config>>

\* a controller method (add_message, add_log_message, ...) called on thread cur
Dispatch(cur, fn) ==
    /\ Len(dispatch_log) < MaxDispatches
    /\ \E cft \in CallFromThreadOutcomes(cur) :
         LET r == SafeCall(IsRunning, app_thread_id, DriverThreadId, cur, fn, cft)
         IN  dispatch_log' = Append(dispatch_log,
                 [phase |-> ui_phase, running |-> IsRunning, caller |-> cur, fn |-> fn,
                  inline |-> r.inline, marshalled |-> r.marshalled, raised |-> r.raised,
                  cft |-> IF r.marshalled = <<>> THEN "not_called" ELSE cft])
    /\ UNCHANGED <<ext_vars, ui_vars, gate_vars, session_vars, helper_vars, config>>

----------------------------------------------------------------------------
(* Extension registry *)

\* Python's None for a name or a handle
NoneVal == 0

NoOptions == [mcp_servers |-> <<>>, allowed_tools |-> <<>>, built |-> FALSE]

ExtNames == 1..NumExt

\* The shapes an extension module can have:
\*   "ctx3"         all exports, init_extension(config, ctl, ctx) returns
\*   "plain2"       all exports, init_extension(config, ctl) returns
\*   "noinit"       MCP_NAME, __mcp__, __mcp_allowed_tools__, no init_extension
\*   "badinit"      all exports, init_extension(config, ctl) raises
\*   "unresolvable" importlib.import_module(path) raises
\*   "bare"         resolves, exports none of the four names
\*   "varargs2"     all exports, init_extension(config, ctl, *args) returns
\*   "kwargs2"      all exports, init_extension(config, ctl, **kwargs) returns
ModuleKinds ==
    {"ctx3", "plain2", "noinit", "badinit", "unresolvable", "bare", "varargs2", "kwargs2"}

\* importlib.import_module(module_path) returns
Resolves(k) == k # "unresolvable"

\* getattr(ext_moudle, "MCP_NAME", None)
McpNameOf(i, k) == IF k = "bare" THEN NoneVal ELSE i

\* getattr(ext_moudle, "__mcp__", None): the handle of module i is i
McpHandleOf(i, k) == IF k = "bare" THEN NoneVal ELSE i

\* getattr(ext_moudle, "__mcp_allowed_tools__", []): mcp__<MCP_NAME>__<tool>
AllowedToolsOf(i, k) == IF k = "bare" THEN <<>> ELSE << <<i, 1>>, <<i, 2>> >>

\* getattr(ext_moudle, "init_extension", None) is truthy
HasInit(k) == k \in {"ctx3", "plain2", "badinit", "varargs2", "kwargs2"}

\* the parameters init_extension declares: how many positional ones, and
\* whether *args and **kwargs follow them
SignatureOf(k) ==
    [positional |-> IF k = "ctx3" THEN 3 ELSE 2,
     var_positional |-> k = "varargs2",
     var_keyword |-> k = "kwargs2"]

\* len(sig.parameters): *args and **kwargs are parameters too
ParamCount(sig) ==
    sig.positional + (IF sig.var_positional THEN 1 ELSE 0) + (IF sig.var_keyword THEN 1 ELSE 0)

\* the initializer raises when called
InitRaises(k) == k = "badinit"

\* inspect.signature(init_func): *args/**kwargs or at least three parameters
SupportsCtx(k) ==
    LET sig == SignatureOf(k)
    IN  IF sig.var_positional THEN TRUE
        ELSE IF sig.var_keyword THEN TRUE
        ELSE ParamCount(sig) >= 3

\* a loader that ignores the enabled list
C19_SelectEveryDeclared(enabled, i) == TRUE

\* if extension_enabled and k not in extension_enabled: continue
SelectedForLoad(enabled, i) == enabled = {} \/ i \in enabled

\* self.controller.add_log_message(line, "info") from the thread running
\* on_ready: the lines that reach the message log
LoadLogLines(line) ==
    LET cft == CHOOSE o \in CallFromThreadOutcomes(UiThread) : TRUE
        r == SafeCall(IsRunning, app_thread_id, DriverThreadId, UiThread, line, cft)
    IN  IF r.marshalled # <<>> /\ cft = "ok" THEN r.inline \o r.marshalled ELSE r.inline

\* mcp_servers[mcp_name] = ext_mcp
DictSet(d, key, val) ==
    [n \in (DOMAIN d) \cup {key} |-> IF n = key THEN val ELSE d[n]]

\* number of arguments the initializer is called with
InitArgs(ctx, k) == IF ctx /\ SupportsCtx(k) THEN 3 ELSE 2

\* init_func(...) with nargs positional arguments raises TypeError before the
\* body runs: too few for the positional parameters, or more of them than
\* the positional parameters without *args to take the rest (**kwargs takes
\* keyword arguments only)
BindFails(sig, nargs) ==
    IF nargs < sig.positional THEN TRUE
    ELSE IF nargs > sig.positional THEN ~sig.var_positional
    ELSE FALSE

\* The body of the try block for module i of kind k, on the locals
\* st = [servers, tools, calls].  The except clause only continues: what the
\* block did before the exception stays done.
TryBlock(st, i, k, ctx) ==
    LET recorded == [st EXCEPT !.servers = DictSet(st.servers, McpNameOf(i, k), McpHandleOf(i, k)),
                               !.tools = st.tools \o AllowedToolsOf(i, k)]
    IN  IF HasInit(k)
        THEN [recorded EXCEPT !.calls = Append(recorded.calls,
                 [ext |-> i, nargs |-> InitArgs(ctx, k),
                  raised |-> IF InitRaises(k) THEN TRUE
                             ELSE BindFails(SignatureOf(k), InitArgs(ctx, k)),
                  type_error |-> BindFails(SignatureOf(k), InitArgs(ctx, k))])]
        ELSE recorded

\* the registry before init() runs, for a fixed configuration
ExtIdle ==
    /\ ext_modules = [i \in ExtNames |-> "noinit"]
    /\ ext_enabled = {}
    /\ ext_ctx = TRUE
    /\ load_pc = "idle"
    /\ load_i = 1
    /\ mcp_servers = <<>>
    /\ allowed_tools = <<>>
    /\ imported = <<>>
    /\ init_calls = <<>>
    /\ load_log = <<>>
    /\ agent_options = NoOptions

\* the registry before init() runs, for every configuration
ExtInit ==
    /\ ext_modules \in [ExtNames -> ModuleKinds]
    /\ ext_enabled \in SUBSET ExtNames
    /\ ext_ctx \in BOOLEAN
    /\ load_pc = "idle"
    /\ load_i = 1
    /\ mcp_servers = <<>>
    /\ allowed_tools = <<>>
    /\ imported = <<>>
    /\ init_calls = <<>>
    /\ load_log = <<>>
    /\ agent_options = NoOptions

\* init_extensions_from_config is entered: the locals are created and the
\* banner line is logged
LoadBegin ==
    /\ load_pc = "idle"
    /\ load_pc' = "loop"
    /\ load_i' = 1
    /\ mcp_servers' = <<>>
    /\ allowed_tools' = <<>>
    /\ load_log' = load_log \o LoadLogLines(0)
    /\ UNCHANGED <<ext_modules, ext_enabled, ext_ctx, imported, init_calls, agent_options>>
    /\ UNCHANGED <<ui_vars, dispatch_log, gate_vars, session_vars, helper_vars, config>>

\* one iteration of  for k, v in extension_config.items()
LoadStep ==
    /\ load_pc = "loop"
    /\ load_i <= NumExt
    /\ LET i == load_i
           k == ext_modules[i]
           st == TryBlock([servers |-> mcp_servers, tools |-> allowed_tools,
                           calls |-> init_calls], i, k, ext_ctx)
       IN  IF ~SelectedForLoad(ext_enabled, i)
           THEN /\ load_i' = i + 1
                /\ UNCHANGED <<load_pc, mcp_servers, allowed_tools, imported,
                               init_calls, load_log>>
           ELSE /\ load_log' = load_log \o LoadLogLines(i)
                /\ imported' = Append(imported, i)
                /\ IF ~Resolves(k)
                   THEN \* import_module is outside the try: the exception leaves the loop
                        /\ load_pc' = "raised"
                        /\ UNCHANGED <<load_i, mcp_servers, allowed_tools, init_calls>>
                   ELSE /\ load_i' = i + 1
                        /\ mcp_servers' = st.servers
                        /\ allowed_tools' = st.tools
                        /\ init_calls' = st.calls
                        /\ UNCHANGED load_pc
    /\ UNCHANGED <<ext_modules, ext_enabled, ext_ctx, agent_options>>
    /\ UNCHANGED <<ui_vars, dispatch_log, gate_vars, session_vars, helper_vars, config>>

\* return mcp_servers, allowed_tools
LoadReturn ==
    /\ load_pc = "loop"
    /\ load_i > NumExt
    /\ load_pc' = "returned"
    /\ UNCHANGED <<ext_modules, ext_enabled, ext_ctx, load_i, mcp_servers, allowed_tools,
                   imported, init_calls, load_log, agent_options>>
    /\ UNCHANGED <<ui_vars, dispatch_log, gate_vars, session_vars, helper_vars, config>>

\* init(): ClaudeAgentOptions(mcp_servers=..., allowed_tools=...) and connect()
ConnectAgent ==
    /\ load_pc = "returned"
    /\ load_pc' = "connected"
    /\ agent_options' = [mcp_servers |-> mcp_servers, allowed_tools |-> allowed_tools,
                         built |-> TRUE]
    /\ UNCHANGED <<ext_modules, ext_enabled, ext_ctx, load_i, mcp_servers, allowed_tools,
                   imported, init_calls, load_log>>
    /\ UNCHANGED <<ui_vars, dispatch_log, gate_vars, session_vars, helper_vars, config>>


----------------------------------------------------------------------------
(* Approval gate: TradexApp.prompt_for_tool_approval, ToolUseApprovalBlock *)

Approvals == 1..MaxApprovals

\* message.index of ListView.Selected: 0 is the item "Accept", 1 the item "Reject"
AcceptIndex == 0
RejectIndex == 1
\* an index no ListItem has: nothing was selected
NoIndex == RejectIndex + 1
Indexes == {AcceptIndex, RejectIndex}

\* a future that is overwritten by every set_result
C5_SetResultOverwrites(f, v) == [future |-> v, raised |-> FALSE]

\* asyncio.Future.set_result(v) as called by the handler: a future that is
\* not pending keeps its result and the call raises InvalidStateError
FutureSetResult(f, v) ==
    IF f = "PENDING" THEN [future |-> v, raised |-> FALSE]
    ELSE [future |-> f, raised |-> TRUE]

\* an await that returns without waiting for the future
C3_AwaitDoesNotWait(f) == TRUE

\* result = await future: the caller goes on once the future has a result
FutureDone(f) == f \in {"True", "False"}

\* a handler that resolves with the opposite value
C4_SelectionInverted(idx) == IF idx = AcceptIndex THEN "False" ELSE "True"

\* if message.index == 0: set_result(True) else: set_result(False)
SelectionResult(idx) == IF idx = AcceptIndex THEN "True" ELSE "False"

\* if result: return PermissionResultAllow() else: return PermissionResultDeny()
Verdict(f) == IF f = "True" THEN "allow" ELSE "deny"

\* a widget class that keeps one future for all its instances
C7_WidgetsShareFuture(a) == 1

\* self._future = approval_result: the widget of request a holds a's future
FutureOfWidget(a) == a

Verdicts == {"allow", "deny"}

\* no approval has been requested
GateIdle ==
    /\ ap_pc = [a \in Approvals |-> "idle"]
    /\ ap_future = [a \in Approvals |-> "NONE"]
    /\ ap_widget = [a \in Approvals |-> [mounted |-> FALSE, disabled |-> FALSE]]
    /\ ap_selected = [a \in Approvals |-> <<>>]
    /\ ap_resolved_by = [a \in Approvals |-> NoIndex]
    /\ ap_rejected = [a \in Approvals |-> 0]
    /\ n_selections = 0

\* prompt_for_tool_approval up to its await, called by the agent runtime on
\* thread cur: the future is created, the widget is rendered through the
\* dispatcher, the caller suspends on the future
RequestApproval(a, cur) ==
    /\ IsRunning
    /\ ap_pc[a] = "idle"
    /\ IF a = 1 THEN TRUE ELSE ap_pc[a - 1] # "idle"
    /\ \E cft \in CallFromThreadOutcomes(cur) :
         LET r == SafeCall(IsRunning, app_thread_id, DriverThreadId, cur,
                           "add_tool_use_approval", cft)
             rendered == r.inline # <<>> \/ (r.marshalled # <<>> /\ cft = "ok")
         IN  /\ ap_future' = [ap_future EXCEPT ![a] = "PENDING"]
             /\ ap_widget' = [ap_widget EXCEPT ![a] = [mounted |-> rendered, disabled |-> FALSE]]
             /\ ap_pc' = [ap_pc EXCEPT ![a] = IF r.raised THEN "failed" ELSE "awaiting"]
    /\ UNCHANGED <<ap_selected, ap_resolved_by, ap_rejected, n_selections>>
    /\ UNCHANGED <<ext_vars, ui_vars, dispatch_log, session_vars, helper_vars, config>>

\* the operator selects item idx of the widget's ListView: the toolkit posts
\* ListView.Selected to the block (a disabled ListView takes no input)
OperatorSelect(a, idx) ==
    /\ IsRunning
    /\ ap_widget[a].mounted
    /\ ~ap_widget[a].disabled
    /\ n_selections < MaxSelections
    /\ n_selections' = n_selections + 1
    /\ ap_selected' = [ap_selected EXCEPT ![a] = Append(@, idx)]
    /\ UNCHANGED <<ap_pc, ap_future, ap_widget, ap_resolved_by, ap_rejected>>
    /\ UNCHANGED <<ext_vars, ui_vars, dispatch_log, session_vars, helper_vars, config>>

\* ToolUseApprovalBlock.handle_list_view_selected for the oldest posted message
HandleSelected(a) ==
    /\ IsRunning
    /\ ap_selected[a] # <<>>
    /\ LET idx == Head(ap_selected[a])
           f == FutureOfWidget(a)
           r == FutureSetResult(ap_future[f], SelectionResult(idx))
       IN  /\ ap_selected' = [ap_selected EXCEPT ![a] = Tail(@)]
           /\ ap_future' = [ap_future EXCEPT ![f] = r.future]
           /\ IF r.raised
              THEN \* InvalidStateError leaves the handler before line 177
                   /\ ap_rejected' = [ap_rejected EXCEPT ![a] = @ + 1]
                   /\ UNCHANGED <<ap_widget, ap_resolved_by>>
              ELSE /\ ap_widget' = [ap_widget EXCEPT ![a].disabled = TRUE]
                   /\ ap_resolved_by' = [ap_resolved_by EXCEPT ![f] = idx]
                   /\ UNCHANGED ap_rejected
    /\ UNCHANGED <<ap_pc, n_selections>>
    /\ UNCHANGED <<ext_vars, ui_vars, dispatch_log, session_vars, helper_vars, config>>

\* the suspended prompt_for_tool_approval resumes and returns its verdict
ResumeCaller(a) ==
    /\ ap_pc[a] = "awaiting"
    /\ FutureDone(ap_future[a])
    /\ ap_pc' = [ap_pc EXCEPT ![a] = Verdict(ap_future[a])]
    /\ UNCHANGED <<ap_future, ap_widget, ap_selected, ap_resolved_by, ap_rejected, n_selections>>
    /\ UNCHANGED <<ext_vars, ui_vars, dispatch_log, session_vars, helper_vars, config>>

----------------------------------------------------------------------------
(* Session lifecycle and event classifier: TradexApp in tradex-cli *)

NoSession == "none"

\* str(uuid.uuid4())
NewSessionId == "uuid4"

\* who is executing when a record is appended: the UI's event handler
\* on_input_submitted, or handle_message inside a handle_user_input worker
UiHandler == "on_input_submitted"
Classifier == "handle_message"

\* what the file system does to session_dir.mkdir / history_path.open / json.dump
FsOutcomes == {"ok", "mkdir_error", "write_error"}

\* event.value as typed, and event.value.strip()
UserTexts == {"  ", "/model", " query balance "}

\* a handler that records the text as typed
C25_KeepsWhitespace(text) == text

Strip(text) ==
    CASE text = "  " -> ""
      [] text = " query balance " -> "query balance"
      [] OTHER -> text

\* _handle_command(command): "/model" opens the settings dialog
IsCommand(text) == text = "/model"

\* tool names as their "__"-separated segments
TodoWrite == <<"TodoWrite">>
ToolNames == {TodoWrite, <<"mcp", "trade", "buy">>}

\* _handle_mcp_tool_use(tool_name): tool_name.split("__")[-1] for an MCP tool
HandleMcpToolUse(tool_name) ==
    IF Head(tool_name) = "mcp" THEN <<tool_name[Len(tool_name)]>> ELSE tool_name

\* content items of an AssistantMessage
AssistantItems ==
    {[type |-> "text", text |-> "balance is 10"], [type |-> "thinking", text |-> "plan"]}
    \cup {[type |-> "tool_use", name |-> n] : n \in ToolNames}

\* content items of a UserMessage: ToolResultBlocks whose content is a str or
\* a list, carrying the text "Todos" (marker) or not
UserItems ==
    {[type |-> "tool_result", form |-> "str", marker |-> FALSE, is_error |-> FALSE],
     [type |-> "tool_result", form |-> "str", marker |-> TRUE, is_error |-> FALSE],
     [type |-> "tool_result", form |-> "list", marker |-> TRUE, is_error |-> TRUE]}

\* a message follows a submission, so it has at most MaxEvents - 1 items
ContentsOver(items) == UNION {[1..n -> items] : n \in 0..(MaxEvents - 1)}

\* duration_ms as handle_message reads it: None or an integer
NoDuration == [none |-> TRUE, ms |-> 0]
Ms(n) == [none |-> FALSE, ms |-> n]

\* the messages receive_messages() can yield
BackendEvents ==
    {[role |-> "assistant", content |-> c] : c \in ContentsOver(AssistantItems)}
    \cup {[role |-> "user", content |-> c] : c \in ContentsOver(UserItems)}
    \cup {[role |-> "system", subtype |-> s] : s \in {"init", "status"}}
    \cup {[role |-> "result", duration_ms |-> d] : d \in {Ms(1200)}}

\* the size of a backend event
EventSize(msg) ==
    IF msg.role \in {"assistant", "user"} /\ Len(msg.content) > 1 THEN Len(msg.content) ELSE 1

\* the size of what has been observed so far
RECURSIVE ObservedSize(_)
ObservedSize(events) ==
    IF events = <<>>
    THEN 0
    ELSE (IF Head(events).kind = "backend" THEN EventSize(Head(events).msg) ELSE 1)
         + ObservedSize(Tail(events))

DefaultIndicator == <<"Tradex is working in progress ...">>

\* the in_progress item of the todos of a TodoWrite call, and the message
\* of the prefix ("now doing") followed by it
TodoInProgress == "check balance"
IndicatorMessage(in_progress) == <<"zheng zai", in_progress>>

\* the indicator as constructed: hidden, with the widget's default text
IndicatorOff == [on |-> FALSE, message |-> <<"please wait">>]

\* controller.set_work_indicator(on, message): show_progress(message) turns
\* the indicator on and replaces the text if one is given, hide() turns it
\* off and keeps the text
SetWorkIndicator(ind, on, message) ==
    IF on
    THEN [on |-> TRUE, message |-> IF message # <<>> THEN message ELSE ind.message]
    ELSE [ind EXCEPT !.on = FALSE]

\* a controller call made by the code that runs on the loop's thread: the UI
\* actions that result; src is a ghost field, the position in observed of the
\* event being handled (0: none)
\* the UI call with the route it takes to the widgets
Routed(action, via) ==
    [f \in DOMAIN action \cup {"via"} |-> IF f = "via" THEN via ELSE action[f]]

\* a handler that calls the widget's method itself
C26_DirectWidgetCall(action) == <<Routed(action, "msg_log")>>

\* self.controller.<method>(...): every method of AgentController hands the
\* app's method to _safe_call
ControllerCall(action) == LoadLogLines(Routed(action, "_safe_call"))

\* a history that puts the newest record first
C13_AppendPrepends(hist, event, payload, src, ctx) ==
    IF session_id = NoSession
    THEN hist
    ELSE <<[event |-> event, payload |-> payload, src |-> src, ctx |-> ctx]>> \o hist

\* a history that keeps only the newest record
C15_AppendReplaces(hist, event, payload, src, ctx) ==
    IF session_id = NoSession
    THEN hist
    ELSE <<[event |-> event, payload |-> payload, src |-> src, ctx |-> ctx]>>

\* a history that never takes a user_input record
C38_DropsUserInput(hist, event, payload, src, ctx) ==
    IF session_id = NoSession \/ event = "user_input"
    THEN hist
    ELSE Append(hist, [event |-> event, payload |-> payload, src |-> src, ctx |-> ctx])

\* a history all of whose appends are made by the classifier
C16_AppendAsClassifier(hist, event, payload, src, ctx) ==
    IF session_id = NoSession
    THEN hist
    ELSE Append(hist, [event |-> event, payload |-> payload, src |-> src, ctx |-> Classifier])

\* _append_session_event(event, payload): nothing without a session;
\* _json_safe copies the strings, booleans and lists of the payload unchanged
AppendSessionEvent(hist, event, payload, src, ctx) ==
    IF session_id = NoSession
    THEN hist
    ELSE Append(hist, [event |-> event, payload |-> payload, src |-> src, ctx |-> ctx])

\* the characters of str(n) for n >= 0
Digits == <<"0", "1", "2", "3", "4", "5", "6", "7", "8", "9">>
RECURSIVE DecimalDigits(_)
DecimalDigits(n) ==
    IF n < 10 THEN <<Digits[n + 1]>> ELSE DecimalDigits(n \div 10) \o <<Digits[(n % 10) + 1]>>

\* f"{n:02d}" for n >= 0
Pad2(n) == IF n < 10 THEN <<"0">> \o DecimalDigits(n) ELSE DecimalDigits(n)

\* " ".join(parts)
RECURSIVE JoinParts(_)
JoinParts(parts) ==
    IF parts = <<>> THEN <<>>
    ELSE IF Len(parts) = 1 THEN Head(parts)
    ELSE Head(parts) \o <<" ">> \o JoinParts(Tail(parts))

\* a formatter that always shows the minutes once the hours are shown
C21_MinutesKeptWithHours(duration_ms) ==
    IF duration_ms.none
    THEN <<"0", "s">>
    ELSE LET floored == duration_ms.ms \div 1000
             total_seconds == IF floored < 0 THEN 0 ELSE floored
             hours == total_seconds \div 3600
             minutes == (total_seconds % 3600) \div 60
             seconds == total_seconds % 60
         IN  JoinParts((IF hours # 0 THEN <<Pad2(hours) \o <<"h">> >> ELSE <<>>)
                       \o (IF hours # 0 \/ minutes # 0 THEN <<Pad2(minutes) \o <<"m">> >> ELSE <<>>)
                       \o <<Pad2(seconds) \o <<"s">> >>)

\* a formatter that rounds to the nearest second and does not pad
C22_RoundsUnpadded(duration_ms) ==
    IF duration_ms.none
    THEN <<"0", "s">>
    ELSE LET rounded == (duration_ms.ms + 500) \div 1000
             total_seconds == IF rounded < 0 THEN 0 ELSE rounded
             hours == total_seconds \div 3600
             minutes == (total_seconds % 3600) \div 60
             seconds == total_seconds % 60
         IN  JoinParts((IF hours # 0 THEN <<DecimalDigits(hours) \o <<"h">> >> ELSE <<>>)
                       \o (IF minutes # 0 THEN <<DecimalDigits(minutes) \o <<"m">> >> ELSE <<>>)
                       \o <<DecimalDigits(seconds) \o <<"s">> >>)

\* _format_duration(duration_ms): the characters of the string returned.
\* int(duration_ms) // 1000 floors (also for a negative count, as \div does),
\* max(0, ...) clamps; hours and minutes are appended only when non-zero
FormatDuration(duration_ms) ==
    IF duration_ms.none
    THEN <<"0", "s">>
    ELSE LET floored == duration_ms.ms \div 1000
             total_seconds == IF floored < 0 THEN 0 ELSE floored
             hours == total_seconds \div 3600
             minutes == (total_seconds % 3600) \div 60
             seconds == total_seconds % 60
         IN  JoinParts((IF hours # 0 THEN <<Pad2(hours) \o <<"h">> >> ELSE <<>>)
                       \o (IF minutes # 0 THEN <<Pad2(minutes) \o <<"m">> >> ELSE <<>>)
                       \o <<Pad2(seconds) \o <<"s">> >>)

\* the durations _format_duration is applied to: every combination of the
\* components below, some negative counts, and None
FmtHours == 0..MaxHours
FmtMinutes == {0, 1, 2, 59}
FmtSeconds == {0, 1, 3, 5, 59}
FmtMillis == {0, 200, 500, 999}
DurationInputs ==
    {Ms(h * 3600000 + m * 60000 + s * 1000 + r) :
        h \in FmtHours, m \in FmtMinutes, s \in FmtSeconds, r \in FmtMillis}
    \cup {Ms(0 - n) : n \in {1, 500, 1000, 65000}}
    \cup {NoDuration}

\* no helper is under evaluation
HelperIdle == arg = <<>> /\ result = <<>>

\* _format_duration is about to be called with arg
DurationInit == arg \in DurationInputs /\ result = <<>>

\* result = _format_duration(arg)
ApplyFormatDuration ==
    /\ arg \in DurationInputs
    /\ result = <<>>
    /\ result' = FormatDuration(arg)
    /\ UNCHANGED arg
    /\ UNCHANGED <<ext_vars, ui_vars, dispatch_log, gate_vars, session_vars, config>>

\* ---- values handed to _json_safe ----
\* a Python str is the sequence of its pieces; every kind keeps its content
\* in a field of its own
PyStr(s) == [kind |-> "str", str |-> s]
PyInt(n) == [kind |-> "int", int |-> n]
PyFloat(tenths) == [kind |-> "float", tenths |-> tenths]
PyBool(b) == [kind |-> "bool", bool |-> b]
PyNone == [kind |-> "None"]
PyPath(p) == [kind |-> "Path", path |-> p]
PyObject(r) == [kind |-> "object", repr |-> r]
PyTuple(items) == [kind |-> "tuple", items |-> items]
PyList(items) == [kind |-> "list", items |-> items]
\* entries: the (key, value) pairs in insertion order
PyDict(entries) == [kind |-> "dict", entries |-> entries]

\* isinstance(data, (str, int, float, bool)) or data is None
Primitives == {"str", "int", "float", "bool", "None"}

\* str((n1, n2, ...)) for a tuple of ints
RECURSIVE TupleItems(_)
TupleItems(items) ==
    IF items = <<>> THEN <<>>
    ELSE IF Len(items) = 1 THEN DecimalDigits(Head(items).int)
    ELSE DecimalDigits(Head(items).int) \o <<",", " ">> \o TupleItems(Tail(items))

\* str(data) for the values that are neither containers nor primitives
StrOf(data) ==
    IF data.kind = "Path" THEN data.path
    ELSE IF data.kind = "object" THEN data.repr
    ELSE <<"(">> \o TupleItems(data.items)
         \o (IF Len(data.items) = 1 THEN <<",">> ELSE <<>>) \o <<")">>

\* a reduction that returns the repr of a string instead of the string
RECURSIVE C23_QuotesStrings(_)
C23_QuotesStrings(data) ==
    IF data.kind = "dict"
    THEN PyDict([n \in DOMAIN data.entries |->
                    <<data.entries[n][1], C23_QuotesStrings(data.entries[n][2])>>])
    ELSE IF data.kind = "list"
    THEN PyList([n \in DOMAIN data.items |-> C23_QuotesStrings(data.items[n])])
    ELSE IF data.kind = "str" THEN PyStr(<<"'">> \o data.str \o <<"'">>)
    ELSE IF data.kind \in Primitives THEN data
    ELSE PyStr(StrOf(data))

\* a reduction without the str() fallback
RECURSIVE C24_KeepsUnknown(_)
C24_KeepsUnknown(data) ==
    IF data.kind = "dict"
    THEN PyDict([n \in DOMAIN data.entries |->
                    <<data.entries[n][1], C24_KeepsUnknown(data.entries[n][2])>>])
    ELSE IF data.kind = "list"
    THEN PyList([n \in DOMAIN data.items |-> C24_KeepsUnknown(data.items[n])])
    ELSE data

\* _json_safe(data): a dict keeps its keys and reduces its values, a list
\* reduces its items, a primitive is returned as it is, a Path and every
\* other value (a tuple included: it is not a list) becomes str(data)
RECURSIVE JsonSafe(_)
JsonSafe(data) ==
    IF data.kind = "dict"
    THEN PyDict([n \in DOMAIN data.entries |->
                    <<data.entries[n][1], JsonSafe(data.entries[n][2])>>])
    ELSE IF data.kind = "list"
    THEN PyList([n \in DOMAIN data.items |-> JsonSafe(data.items[n])])
    ELSE IF data.kind \in Primitives THEN data
    ELSE IF data.kind = "Path" THEN PyStr(StrOf(data))
    ELSE PyStr(StrOf(data))

\* json.dump(value, fp, ensure_ascii=False, indent=2) returns: the encoder
\* writes primitives, lists, tuples and dicts whose keys are str, int, float,
\* bool or None, and raises TypeError for anything else
RECURSIVE JsonDumps(_)
JsonDumps(value) ==
    IF value.kind \in Primitives THEN TRUE
    ELSE IF value.kind \in {"list", "tuple"}
    THEN \A n \in DOMAIN value.items : JsonDumps(value.items[n])
    ELSE IF value.kind = "dict"
    THEN \A n \in DOMAIN value.entries :
            /\ value.entries[n][1].kind \in Primitives
            /\ JsonDumps(value.entries[n][2])
    ELSE FALSE

\* the values without containers
JsonLeaves ==
    {PyStr(<<"Todos">>), PyInt(1), PyFloat(15), PyBool(TRUE), PyNone,
     PyPath(<<"/", "tmp", "/", "run">>), PyObject(<<"<", "TextBlock", ">">>),
     PyTuple(<<PyInt(1)>>), PyTuple(<<PyInt(1), PyInt(2)>>)}

\* the keys of the dicts: strings as JSON-decoded data has, and an int and a
\* tuple as any Python dict may have
JsonKeys == {PyStr(<<"text">>), PyInt(1), PyTuple(<<PyInt(1), PyInt(2)>>)}

\* the values nested at most depth containers deep
RECURSIVE JsonValues(_)
JsonValues(depth) ==
    IF depth = 0 THEN JsonLeaves
    ELSE LET inner == JsonValues(depth - 1)
         IN  inner
             \cup {PyList(<<>>), PyDict(<<>>)}
             \cup {PyList(<<v>>) : v \in inner}
             \cup {PyList(<<PyInt(1), v>>) : v \in inner}
             \cup {PyDict(<<<<k, v>>>>) : k \in JsonKeys, v \in inner}

JsonInputs == JsonValues(MaxNesting)

\* _json_safe is about to be called with arg
JsonInit == arg \in JsonInputs /\ result = <<>>

\* result = [_json_safe(arg)]
ApplyJsonSafe ==
    /\ arg \in JsonInputs
    /\ result = <<>>
    /\ result' = <<JsonSafe(arg)>>
    /\ UNCHANGED arg
    /\ UNCHANGED <<ext_vars, ui_vars, dispatch_log, gate_vars, session_vars, config>>

\* the value returned is reduced again: result = [first, _json_safe(first)]
ReapplyJsonSafe ==
    /\ Len(result) = 1
    /\ result' = result \o <<JsonSafe(result[1])>>
    /\ UNCHANGED arg
    /\ UNCHANGED <<ext_vars, ui_vars, dispatch_log, gate_vars, session_vars, config>>

\* assistant_record = {"text_blocks": [], "tool_calls": [], "thinking": []}
EmptyAssistantRecord == [text_blocks |-> <<>>, tool_calls |-> <<>>, thinking |-> <<>>]

\* if assistant_record["text_blocks"] or ["tool_calls"] or ["thinking"]
HasContent(rec) == rec.text_blocks # <<>> \/ rec.tool_calls # <<>> \/ rec.thinking # <<>>

\* the effects of one handle_message call so far are fx = [hist, ui, ind]

\* a flush that appends the accumulated record whether or not it has content
C32_FlushAlways(rec, fx, src) ==
    [fx EXCEPT !.hist = AppendSessionEvent(@, "assistant_message", rec, src, Classifier)]

\* if HasContent: self._append_session_event("assistant_message", assistant_record)
FlushAssistant(rec, fx, src) ==
    IF HasContent(rec)
    THEN [fx EXCEPT !.hist = AppendSessionEvent(@, "assistant_message", rec, src, Classifier)]
    ELSE fx

\* a TodoWrite branch that records the plan before the pending message
C14_TodoBeforeFlush(rec, fx, src) ==
    LET message == IndicatorMessage(TodoInProgress)
        shown == [fx EXCEPT !.ind = SetWorkIndicator(@, TRUE, message),
                            !.ui = @ \o ControllerCall(
                                         [fn |-> "set_work_indicator", src |-> src, on |-> TRUE, message |-> message])
                                     \o ControllerCall(
                                         [fn |-> "add_todo_list", src |-> src, todos |-> TodoInProgress])]
        todo == [shown EXCEPT !.hist = AppendSessionEvent(@, "assistant_todo",
                     [todos |-> TodoInProgress, indicator |-> message], src, Classifier)]
    IN  FlushAssistant(rec, todo, src)

\* the branch  if content.name == "TodoWrite": ... return
TodoWriteBranch(rec, fx, src) ==
    LET message == IndicatorMessage(TodoInProgress)
        shown == [fx EXCEPT !.ind = SetWorkIndicator(@, TRUE, message),
                            !.ui = @ \o ControllerCall(
                                         [fn |-> "set_work_indicator", src |-> src, on |-> TRUE, message |-> message])
                                     \o ControllerCall(
                                         [fn |-> "add_todo_list", src |-> src, todos |-> TodoInProgress])]
        flushed == FlushAssistant(rec, shown, src)
    IN  [flushed EXCEPT !.hist = AppendSessionEvent(@, "assistant_todo",
             [todos |-> TodoInProgress, indicator |-> message], src, Classifier)]

\* for content in msg.content  of an AssistantMessage, from item n on
RECURSIVE AssistantLoop(_, _, _, _, _)
AssistantLoop(content, n, rec, fx, src) ==
    IF n > Len(content)
    THEN FlushAssistant(rec, fx, src)
    ELSE LET c == content[n]
         IN  CASE c.type = "text" ->
                    AssistantLoop(content, n + 1,
                        [rec EXCEPT !.text_blocks = Append(@, c.text)],
                        [fx EXCEPT !.ui = @ \o ControllerCall([fn |-> "add_message", src |-> src, text |-> c.text])],
                        src)
               [] c.type = "thinking" ->
                    AssistantLoop(content, n + 1,
                        [rec EXCEPT !.thinking = Append(@, c.text)], fx, src)
               [] c.type = "tool_use" /\ c.name = TodoWrite ->
                    TodoWriteBranch(rec, fx, src)
               [] c.type = "tool_use" /\ c.name # TodoWrite ->
                    AssistantLoop(content, n + 1,
                        [rec EXCEPT !.tool_calls = Append(@,
                            [tool_name |-> HandleMcpToolUse(c.name), item |-> n])],
                        [fx EXCEPT !.ui = @ \o ControllerCall(
                            [fn |-> "add_tool_use", src |-> src, name |-> HandleMcpToolUse(c.name)])],
                        src)
               [] OTHER -> AssistantLoop(content, n + 1, rec, fx, src)

\* for content in msg.content  of a UserMessage, from item n on
RECURSIVE UserLoop(_, _, _, _)
UserLoop(content, n, fx, src) ==
    IF n > Len(content)
    THEN fx
    ELSE LET c == content[n]
         IN  IF c.type # "tool_result"
             THEN UserLoop(content, n + 1, fx, src)
             ELSE IF c.form = "str" /\ c.marker
             THEN fx
             ELSE UserLoop(content, n + 1,
                      [fx EXCEPT !.ui = @ \o ControllerCall(
                                     [fn |-> "add_tool_use_result", src |-> src, is_error |-> c.is_error, item |-> n]),
                                 !.hist = AppendSessionEvent(@, "tool_result",
                                     [is_error |-> c.is_error, content |-> c.form, item |-> n],
                                     src, Classifier)],
                      src)

\* a system branch that asserts the indicator for every subtype
C33_AssertsOnEverySubtype(msg, fx, src) ==
    LET shown == [fx EXCEPT !.ind = SetWorkIndicator(@, TRUE, DefaultIndicator),
                            !.ui = @ \o ControllerCall(
                                [fn |-> "set_work_indicator", src |-> src, on |-> TRUE,
                                 message |-> DefaultIndicator])]
    IN  [shown EXCEPT !.hist = AppendSessionEvent(@, "system_message",
             [subtype |-> msg.subtype, content |-> "None"], src, Classifier)]

\* the branch  elif isinstance(msg, SystemMessage): the indicator is asserted
\* for the subtype "init" only; the record holds the subtype and
\* getattr(msg, "content", None)
SystemBranch(msg, fx, src) ==
    LET shown == IF msg.subtype = "init"
                 THEN [fx EXCEPT !.ind = SetWorkIndicator(@, TRUE, DefaultIndicator),
                                 !.ui = @ \o ControllerCall(
                                     [fn |-> "set_work_indicator", src |-> src, on |-> TRUE,
                                      message |-> DefaultIndicator])]
                 ELSE fx
    IN  [shown EXCEPT !.hist = AppendSessionEvent(@, "system_message",
             [subtype |-> msg.subtype, content |-> "None"], src, Classifier)]

\* a result branch that records the event before it renders the completion
\* message and clears the indicator last
C34_RecordsThenRenders(msg, fx, src) ==
    [fx EXCEPT !.hist = AppendSessionEvent(@, "result_message",
                   [duration_ms |-> msg.duration_ms, usage |-> "None", metadata |-> "None"],
                   src, Classifier),
               !.ui = @ \o ControllerCall([fn |-> "add_system_message", src |-> src,
                                           duration |-> FormatDuration(msg.duration_ms)])
                        \o ControllerCall(
                            [fn |-> "set_work_indicator", src |-> src, on |-> FALSE, message |-> <<>>]),
               !.ind = SetWorkIndicator(@, FALSE, <<>>)]

\* the branch  elif isinstance(msg, ResultMessage): clear the indicator,
\* render the completion message, append the record
ResultBranch(msg, fx, src) ==
    [fx EXCEPT !.ind = SetWorkIndicator(@, FALSE, <<>>),
               !.ui = @ \o ControllerCall(
                            [fn |-> "set_work_indicator", src |-> src, on |-> FALSE, message |-> <<>>])
                        \o ControllerCall([fn |-> "add_system_message", src |-> src,
                                           duration |-> FormatDuration(msg.duration_ms)]),
               !.hist = AppendSessionEvent(@, "result_message",
                   [duration_ms |-> msg.duration_ms, usage |-> "None", metadata |-> "None"],
                   src, Classifier)]

\* handle_message(msg) for the trigger at position src of observed
Classify(msg, fx, src) ==
    CASE msg.role = "assistant" -> AssistantLoop(msg.content, 1, EmptyAssistantRecord, fx, src)
      [] msg.role = "user" -> UserLoop(msg.content, 1, fx, src)
      [] msg.role = "system" -> SystemBranch(msg, fx, src)
      [] msg.role = "result" -> ResultBranch(msg, fx, src)
      [] OTHER -> fx

\* the sections init() reads with self.config.get, and the configurations
\* load_config (tomllib.load) can return: each section is a table or absent
Sections == {"environment", "model", "agent"}
Configs == [Sections -> {"table", "absent"}]
FullConfig == [k \in Sections |-> "table"]
NoEnvironmentConfig == [FullConfig EXCEPT !["environment"] = "absent"]

\* self.config.get(key, default)
ConfigGet(cfg, key, default) == IF cfg[key] = "absent" THEN default ELSE cfg[key]

\* the ValueError init() raises for cfg, "" if none: environment is read
\* with no default, model and agent with the default {}, which is not None
ConfigError(cfg) ==
    IF ConfigGet(cfg, "environment", "None") = "None"
    THEN "Missing 'environment' configuration"
    ELSE IF ConfigGet(cfg, "model", "{}") = "None"
    THEN "Missing 'model' configuration"
    ELSE IF ConfigGet(cfg, "agent", "{}") = "None"
    THEN "Missing 'agent' configuration"
    ELSE ""

\* the application was constructed from a complete configuration file
ConfigLoaded == config = FullConfig

\* ---- the working directory of a run ----
\* the instants, in milliseconds, at which init() of a run reads the clock
StartTimes == {0, 1, 500, 999, 1000, 1001, 1999, 2000}

\* the two runs started under one workspace root
Runs == {1, 2}

\* no directory provisioned yet
NoDir == 0 - 1

\* timestamp.strftime("%Y%m%d%H%M%S"): the instant cut to whole seconds
StrfTime(ms) == ms \div 1000

\* run_cwd = workspace_dir / timestamp.strftime(...)
RunCwd(ms) == StrfTime(ms)

\* two runs are about to be started at the instants arg[1] and arg[2]
WorkdirInit == arg \in StartTimes \X StartTimes /\ result = <<NoDir, NoDir>>

\* init() of run r up to run_cwd.mkdir(parents=True, exist_ok=True), which
\* succeeds whether or not the directory exists
ProvisionWorkdir(r) ==
    /\ Len(arg) = 2 /\ Len(result) = 2
    /\ result[r] = NoDir
    /\ result' = [result EXCEPT ![r] = RunCwd(arg[r])]
    /\ UNCHANGED arg
    /\ UNCHANGED <<ext_vars, ui_vars, dispatch_log, gate_vars, session_vars, config>>

\* the session before on_ready calls init()
SessionIdle ==
    /\ init_pc = "pending"
    /\ session_id = NoSession
    /\ session_history = <<>>
    /\ observed = <<>>
    /\ ui_log = <<>>
    /\ work_indicator = IndicatorOff
    /\ claude_client = "none"
    /\ workers = <<>>
    /\ persisted = <<>>
    /\ exit_result = "pending"

\* the session once init() has returned: created and connected
SessionConnected ==
    /\ init_pc = "ready"
    /\ session_id = NewSessionId
    /\ session_history = <<>>
    /\ observed = <<>>
    /\ ui_log = <<>>
    /\ work_indicator = IndicatorOff
    /\ claude_client = "connected"
    /\ workers = <<>>
    /\ persisted = <<>>
    /\ exit_result = "pending"

\* init() up to the await of connect(): a missing environment section raises
\* before anything is set; otherwise the session is created (lines 90-92);
\* a raising extension load leaves no client; else the client is constructed
InitSession(outcome) ==
    /\ init_pc = "pending"
    /\ ui_phase = "running"
    /\ (outcome = "no_environment") <=> (ConfigError(config) = "Missing 'environment' configuration")
    /\ IF outcome = "no_environment"
       THEN /\ init_pc' = "failed"
            /\ UNCHANGED <<session_id, session_history, claude_client>>
       ELSE LET raised == outcome = "load_raised" \/ ConfigError(config) # ""
            IN  /\ session_id' = NewSessionId
                /\ session_history' = <<>>
                /\ init_pc' = IF raised THEN "failed" ELSE "connecting"
                /\ claude_client' = IF raised THEN "none" ELSE "constructed"
    /\ UNCHANGED <<observed, ui_log, work_indicator, workers, persisted, exit_result>>
    /\ UNCHANGED <<ext_vars, ui_vars, dispatch_log, gate_vars, helper_vars, config>>

\* await self.claude_client.connect() completes; run_worker starts its
\* coroutine as a task at once, so a worker scheduled earlier has taken its
\* first step by the time the connection, which takes many turns of the
\* loop, is up
ConnectDone ==
    /\ init_pc = "connecting"
    /\ claude_client = "constructed"
    /\ \A w \in DOMAIN workers : workers[w] # "scheduled"
    /\ init_pc' = "ready"
    /\ claude_client' = "connected"
    /\ UNCHANGED <<session_id, session_history, observed, ui_log, work_indicator, workers,
                   persisted, exit_result>>
    /\ UNCHANGED <<ext_vars, ui_vars, dispatch_log, gate_vars, helper_vars, config>>

\* on_input_submitted(event) with event.value = text; the App handles its
\* messages one at a time, so not while on_ready awaits init()
OnInputSubmitted(text) ==
    /\ ui_phase = "running"
    /\ init_pc # "connecting"
    /\ ObservedSize(observed) < MaxEvents
    /\ observed' = Append(observed, [kind |-> "input", text |-> text])
    /\ IF Strip(text) = ""
       THEN UNCHANGED <<session_history, ui_log, workers>>
       ELSE IF IsCommand(Strip(text))
       THEN /\ ui_log' = Append(ui_log, [fn |-> "add_setting_dialog", src |-> Len(observed) + 1,
                                         command |-> Strip(text), via |-> "msg_log"])
            /\ UNCHANGED <<session_history, workers>>
       ELSE /\ session_history' = AppendSessionEvent(session_history, "user_input",
                                      [text |-> Strip(text)], Len(observed) + 1, UiHandler)
            /\ workers' = Append(workers, "scheduled")
            /\ UNCHANGED ui_log
    /\ UNCHANGED <<init_pc, session_id, work_indicator, claude_client, persisted, exit_result>>
    /\ UNCHANGED <<ext_vars, ui_vars, dispatch_log, gate_vars, helper_vars, config>>

\* worker w starts handle_user_input: without a client it returns; else it
\* turns the indicator on and awaits query(), which raises unless the client
\* is connected; then it iterates receive_messages()
HandleUserInput(w) ==
    /\ w \in DOMAIN workers
    /\ workers[w] = "scheduled"
    /\ exit_result \in {"pending", "disconnecting"}
    /\ IF claude_client = "none"
       THEN /\ workers' = [workers EXCEPT ![w] = "returned"]
            /\ UNCHANGED <<ui_log, work_indicator>>
       ELSE /\ work_indicator' = SetWorkIndicator(work_indicator, TRUE, DefaultIndicator)
            /\ ui_log' = ui_log \o ControllerCall(
                             [fn |-> "set_work_indicator", src |-> 0, on |-> TRUE,
                              message |-> DefaultIndicator])
            /\ workers' = [workers EXCEPT ![w] =
                              IF claude_client = "connected" THEN "receiving" ELSE "raised"]
    /\ UNCHANGED <<init_pc, session_id, session_history, observed, claude_client, persisted,
                   exit_result>>
    /\ UNCHANGED <<ext_vars, ui_vars, dispatch_log, gate_vars, helper_vars, config>>

\* the backend events of size at most n
EventsUpTo == [n \in 0..MaxEvents |-> {m \in BackendEvents : EventSize(m) <= n}]

\* the events a receive loop can still yield within the bound
ReceivableEvents ==
    IF \E w \in DOMAIN workers : workers[w] = "receiving"
    THEN EventsUpTo[MaxEvents - ObservedSize(observed)]
    ELSE {}

\* a delivery in which every iterating receive loop is handed msg and
\* classifies it
C39_EveryLoopClassifies(w, msg) ==
    /\ w \in DOMAIN workers
    /\ workers[w] = "receiving"
    /\ claude_client = "connected"
    /\ exit_result \in {"pending", "disconnecting"}
    /\ ObservedSize(observed) + EventSize(msg) <= MaxEvents
    /\ observed' = Append(observed, [kind |-> "backend", msg |-> msg])
    /\ LET once == Classify(msg, [hist |-> session_history, ui |-> ui_log,
                                  ind |-> work_indicator], Len(observed) + 1)
           fx == IF \E v \in DOMAIN workers : v # w /\ workers[v] = "receiving"
                 THEN Classify(msg, once, Len(observed) + 1)
                 ELSE once
       IN  /\ session_history' = fx.hist
           /\ ui_log' = fx.ui
           /\ work_indicator' = fx.ind
    /\ UNCHANGED <<init_pc, session_id, claude_client, workers, persisted, exit_result>>
    /\ UNCHANGED <<ext_vars, ui_vars, dispatch_log, gate_vars, helper_vars, config>>

\* the receive loop of worker w is handed msg, the next event of the client's
\* stream, and handle_message(msg) runs to its end; handle_message has no
\* await, so no other loop runs in between
HandleMessage(w, msg) ==
    /\ w \in DOMAIN workers
    /\ workers[w] = "receiving"
    /\ claude_client = "connected"
    /\ exit_result \in {"pending", "disconnecting"}
    /\ ObservedSize(observed) + EventSize(msg) <= MaxEvents
    /\ observed' = Append(observed, [kind |-> "backend", msg |-> msg])
    /\ LET fx == Classify(msg, [hist |-> session_history, ui |-> ui_log,
                                ind |-> work_indicator], Len(observed) + 1)
       IN  /\ session_history' = fx.hist
           /\ ui_log' = fx.ui
           /\ work_indicator' = fx.ind
    /\ UNCHANGED <<init_pc, session_id, claude_client, workers, persisted, exit_result>>
    /\ UNCHANGED <<ext_vars, ui_vars, dispatch_log, gate_vars, helper_vars, config>>

\* session_data of _save_session_history
SessionData ==
    [session_id |-> session_id, started_at |-> "at_init", ended_at |-> "at_exit",
     cwd |-> "run_cwd", history |-> session_history]

\* _save_session_history(): nothing without a session; mkdir, open and
\* json.dump are not guarded, so a failing file system raises
SaveSessionHistory(fs) ==
    IF session_id = NoSession
    THEN [raised |-> FALSE, files |-> persisted]
    ELSE IF fs = "ok"
    THEN [raised |-> FALSE, files |-> Append(persisted, SessionData)]
    ELSE [raised |-> TRUE, files |-> persisted]

\* teardown: the toolkit leaves its loop and TradexApp.on_exit runs up to its
\* await: the session history is saved, then disconnect() is awaited if there
\* is a client; an exception of the save leaves on_exit; no future is touched
OnExit ==
    /\ ui_phase = "running"
    /\ ui_phase' = "exited"
    /\ \E fs \in FsOutcomes :
         LET saved == SaveSessionHistory(fs)
         IN  /\ persisted' = saved.files
             /\ exit_result' = IF saved.raised THEN "raised"
                               ELSE IF claude_client = "none" THEN "returned"
                               ELSE "disconnecting"
    /\ UNCHANGED <<init_pc, session_id, session_history, observed, ui_log, work_indicator,
                   claude_client, workers>>
    /\ UNCHANGED <<app_thread_id, ext_vars, dispatch_log, gate_vars, helper_vars, config>>

\* await self.claude_client.disconnect() completes: the stream ends, the
\* receive loops end, on_exit returns
DisconnectDone ==
    /\ exit_result = "disconnecting"
    /\ exit_result' = "returned"
    /\ claude_client' = "disconnected"
    /\ workers' = [w \in DOMAIN workers |->
                      IF workers[w] = "receiving" THEN "returned" ELSE workers[w]]
    /\ UNCHANGED <<init_pc, session_id, session_history, observed, ui_log, work_indicator,
                   persisted>>
    /\ UNCHANGED <<ext_vars, ui_vars, dispatch_log, gate_vars, helper_vars, config>>

----------------------------------------------------------------------------
(* Specifications *)

ExtNext == LoadBegin \/ LoadStep \/ LoadReturn \/ ConnectAgent

\* extension loading inside on_ready, over every configuration
ExtSpecInit == ExtInit /\ UiRunning /\ DispatchIdle /\ GateIdle /\ SessionIdle /\ HelperIdle /\ ConfigLoaded

ExtSpec == ExtSpecInit /\ [][ExtNext]_vars

DispatchNext ==
    \/ UiRun
    \/ OnExit
    \/ \E cur \in Threads, fn \in UiActions : Dispatch(cur, fn)

\* the controller API used from either thread over the life of the UI
DispatchSpecInit == ExtIdle /\ UiCreated /\ DispatchIdle /\ GateIdle /\ SessionIdle /\ HelperIdle /\ ConfigLoaded

DispatchSpec == DispatchSpecInit /\ [][DispatchNext]_vars

DispatchNoIdentityNext ==
    \/ UiRunNoIdentity
    \/ OnExit
    \/ \E cur \in Threads, fn \in UiActions : Dispatch(cur, fn)

\* the controller API on a toolkit that exposes no thread identity, the case
\* the fallbacks of _safe_call are written for
DispatchNoIdentityInit == ExtIdle /\ UiCreated /\ DispatchIdle /\ GateIdle /\ SessionIdle /\ HelperIdle /\ ConfigLoaded

DispatchNoIdentitySpec == DispatchNoIdentityInit /\ [][DispatchNoIdentityNext]_vars

GateNext ==
    \/ \E a \in Approvals, cur \in Threads : RequestApproval(a, cur)
    \/ \E a \in Approvals, idx \in Indexes : OperatorSelect(a, idx)
    \/ \E a \in Approvals : HandleSelected(a)
    \/ \E a \in Approvals : ResumeCaller(a)
    \/ OnExit
    \/ DisconnectDone

\* tool approvals of a connected session, up to and after teardown
GateSpecInit == ExtIdle /\ UiRunning /\ DispatchIdle /\ GateIdle /\ SessionConnected /\ HelperIdle /\ ConfigLoaded

GateSpec == GateSpecInit /\ [][GateNext]_vars

SessionNext ==
    \/ \E outcome \in {"ok", "no_environment", "load_raised"} : InitSession(outcome)
    \/ ConnectDone
    \/ \E text \in UserTexts : OnInputSubmitted(text)
    \/ \E w \in 1..MaxEvents : HandleUserInput(w)
    \/ \E w \in 1..MaxEvents, msg \in ReceivableEvents : HandleMessage(w, msg)
    \/ OnExit
    \/ DisconnectDone

\* one run of the application from on_ready to the end of on_exit
SessionSpecInit ==
    /\ ExtIdle /\ UiRunning /\ DispatchIdle /\ GateIdle /\ SessionIdle /\ HelperIdle
    /\ config \in {FullConfig, NoEnvironmentConfig}

SessionSpec == SessionSpecInit /\ [][SessionNext]_vars

\* _format_duration applied once to each duration
DurationSpecInit ==
    ExtIdle /\ UiCreated /\ DispatchIdle /\ GateIdle /\ SessionIdle /\ DurationInit /\ ConfigLoaded

DurationNext == ApplyFormatDuration

DurationSpec == DurationSpecInit /\ [][DurationNext]_vars

\* _json_safe applied to each value, and once more to what it returned
JsonSpecInit ==
    ExtIdle /\ UiCreated /\ DispatchIdle /\ GateIdle /\ SessionIdle /\ JsonInit /\ ConfigLoaded

JsonNext == ApplyJsonSafe \/ ReapplyJsonSafe

JsonSpec == JsonSpecInit /\ [][JsonNext]_vars

\* two runs under one workspace root, started at any two instants
WorkdirSpecInit ==
    ExtIdle /\ UiCreated /\ DispatchIdle /\ GateIdle /\ SessionIdle /\ WorkdirInit /\ ConfigLoaded

WorkdirNext == \E r \in Runs : ProvisionWorkdir(r)

WorkdirSpec == WorkdirSpecInit /\ [][WorkdirNext]_vars

StartupNext ==
    \/ UiRun
    \/ \E outcome \in {"ok", "no_environment", "load_raised"} : InitSession(outcome)
    \/ ConnectDone
    \/ \E text \in UserTexts : OnInputSubmitted(text)
    \/ \E w \in 1..MaxEvents : HandleUserInput(w)
    \/ OnExit
    \/ DisconnectDone

\* a run from TradexApp(config_path) and app.run() on, over every combination
\* of sections in the configuration file
StartupSpecInit ==
    /\ ExtIdle /\ UiCreated /\ DispatchIdle /\ GateIdle /\ SessionIdle /\ HelperIdle
    /\ config \in Configs

StartupSpec == StartupSpecInit /\ [][StartupNext]_vars

----------------------------------------------------------------------------
(* Properties of the extension registry, checked under ExtSpec *)

Range(q) == {q[n] : n \in 1..Len(q)}

\* extensions whose initializer was called and raised
InitFailed == {c.ext : c \in {d \in Range(init_calls) : d.raised}}

\* C1: whatever raises while one extension is resolved, read or initialized is
\* caught: the load never raises to its caller, and once it has returned every
\* selected extension, also those declared after a failing one, was processed.
C1_LoadIsolatesEveryFailure ==
    /\ load_pc # "raised"
    /\ load_pc \in {"returned", "connected"} =>
           \A i \in ExtNames : SelectedForLoad(ext_enabled, i) => i \in Range(imported)

\* C2: the catalog and the allowed-tool list handed to the agent runtime hold
\* nothing of an extension whose initializer raised; with NumExt extensions
\* loaded of which exactly one raises in its initializer, the catalog has
\* NumExt - 1 entries.
C2_CatalogOnlyInitialized ==
    agent_options.built =>
        /\ \A i \in InitFailed :
              /\ i \notin DOMAIN agent_options.mcp_servers
              /\ \A t \in Range(agent_options.allowed_tools) : t[1] # i
        /\ ( /\ Cardinality(InitFailed) = 1
             /\ ext_enabled = {}
             /\ \A i \in ExtNames : ext_modules[i] \in {"ctx3", "plain2", "noinit", "badinit"} )
           => Cardinality(DOMAIN agent_options.mcp_servers) = NumExt - 1

----------------------------------------------------------------------------
(* Properties of the approval gate, checked under GateSpec *)

\* the future holds a result
Resolved(f) == f = "True" \/ f = "False"


\* C3: prompt_for_tool_approval returns a verdict only after its future has
\* been resolved: no request holds a verdict while its future is unresolved.
C3_VerdictOnlyAfterResolution ==
    \A a \in Approvals : ap_pc[a] \in Verdicts => Resolved(ap_future[a])

\* a request has returned a verdict
C3_Witness == \E a \in Approvals : ap_pc[a] \in Verdicts /\ Resolved(ap_future[a])

\* C4: the verdict returned is allow exactly when the future was resolved with
\* True, and the future is resolved with True exactly when the operator
\* selected "Accept".
C4_VerdictMatchesSelection ==
    \A a \in Approvals :
        /\ Resolved(ap_future[a]) =>
              (ap_future[a] = "True" <=> ap_resolved_by[a] = AcceptIndex)
        /\ ap_pc[a] \in Verdicts =>
              /\ ap_pc[a] = "allow" <=> ap_future[a] = "True"
              /\ ap_pc[a] = "deny" <=> ap_future[a] = "False"

\* one request accepted and allowed, another rejected and denied
C4_Witness ==
    \E a, b \in Approvals :
        /\ ap_pc[a] = "allow" /\ ap_resolved_by[a] = AcceptIndex
        /\ ap_pc[b] = "deny" /\ ap_resolved_by[b] = RejectIndex

\* C5: a future is resolved at most once: no step changes the result of a
\* resolved future, nor the verdict a request has returned; a further
\* set_result is refused with InvalidStateError.
C5_ResolvedAtMostOnce ==
    [][\A a \in Approvals :
          /\ Resolved(ap_future[a]) => ap_future'[a] = ap_future[a]
          /\ ap_pc[a] \in Verdicts => ap_pc'[a] = ap_pc[a]
          /\ ap_rejected'[a] > ap_rejected[a] => Resolved(ap_future[FutureOfWidget(a)])
      ]_vars

\* a second selection reached the handler after the verdict was returned, and
\* was refused
C5_Witness ==
    \E a \in Approvals :
        /\ ap_rejected[a] > 0
        /\ ap_pc[a] \in Verdicts
        /\ ap_future[a] = SelectionResult(ap_resolved_by[a])

\* C6: teardown resolves every approval that is still outstanding, so that after
\* the UI has been torn down no caller is suspended on an unresolved future.
C6_TeardownResolvesOutstanding ==
    ui_phase = "exited" =>
        \A a \in Approvals : ap_pc[a] = "awaiting" => Resolved(ap_future[a])

\* C7: outstanding approvals are independent: a step that resolves the future
\* of one request consumes a selection made on that request's own widget and
\* leaves every other request's future and caller as they were; a step that
\* wakes a caller gives it the verdict of its own future and wakes no other;
\* in whatever order the requests are answered, none is resolved twice.
C7_ApprovalsIndependent ==
    [][\A a \in Approvals :
          /\ Resolved(ap_future[a]) => ap_future'[a] = ap_future[a]
          /\ (ap_future[a] = "PENDING" /\ ap_future'[a] # "PENDING") =>
                /\ Len(ap_selected'[a]) < Len(ap_selected[a])
                /\ ap_future'[a] = SelectionResult(Head(ap_selected[a]))
                /\ \A b \in Approvals \ {a} :
                      ap_future'[b] = ap_future[b] /\ ap_pc'[b] = ap_pc[b]
          /\ (ap_pc[a] = "awaiting" /\ ap_pc'[a] # "awaiting") =>
                /\ ap_pc'[a] = Verdict(ap_future[a])
                /\ \A b \in Approvals \ {a} : ap_pc'[b] = ap_pc[b]
      ]_vars

\* the request made later was answered first and has returned, while the
\* earlier one is still unresolved with its caller suspended
C7_Witness ==
    \E a, b \in Approvals :
        /\ b < a
        /\ ap_pc[a] \in Verdicts
        /\ ap_pc[b] = "awaiting" /\ ap_future[b] = "PENDING"

----------------------------------------------------------------------------
(* Properties of the dispatcher, checked under DispatchSpec *)

\* C8: an action dispatched while the UI is not running is run inline in the
\* caller's context exactly once, and call_from_thread is not called.
C8_NotRunningInline ==
    \A e \in Range(dispatch_log) :
        ~e.running => e.inline = <<e.fn>> /\ e.marshalled = <<>>

\* a worker thread dispatched before the UI was run
C8_Witness ==
    \E e \in Range(dispatch_log) :
        e.phase = "created" /\ e.caller = WorkerThread /\ e.inline = <<e.fn>>

\* C9: an action dispatched from the UI's own thread while the UI is running is
\* run inline exactly once, and call_from_thread is never called.
C9_OwnerThreadInline ==
    \A e \in Range(dispatch_log) :
        (e.running /\ e.caller = UiThread) =>
            e.inline = <<e.fn>> /\ e.marshalled = <<>>

\* the UI thread dispatched while the UI was running
C9_Witness ==
    \E e \in Range(dispatch_log) :
        e.running /\ e.caller = UiThread /\ e.inline = <<e.fn>>

\* C10: an action dispatched from another thread while the UI is running is
\* handed to call_from_thread exactly once and is not run inline.
C10_OtherThreadMarshalled ==
    \A e \in Range(dispatch_log) :
        (e.running /\ e.caller # UiThread) =>
            e.marshalled = <<e.fn>> /\ e.inline = <<>>

\* a worker thread dispatched while the UI was running, once with
\* call_from_thread returning and once with it raising
C10_Witness ==
    \E e1, e2 \in Range(dispatch_log) :
        /\ e1.running /\ e1.caller = WorkerThread /\ e1.marshalled = <<e1.fn>> /\ ~e1.raised
        /\ e2.running /\ e2.caller = WorkerThread /\ e2.marshalled = <<e2.fn>> /\ e2.raised

\* C11: when call_from_thread raises an error that is not the re-entrancy
\* signal, _safe_call raises to its caller and has not run the action inline.
C11_OtherErrorPropagates ==
    \A e \in Range(dispatch_log) :
        e.cft = "other_error" => e.raised /\ e.inline = <<>> /\ e.marshalled = <<e.fn>>

\* call_from_thread raised another error for a worker thread's dispatch
C11_Witness ==
    \E e \in Range(dispatch_log) :
        e.cft = "other_error" /\ e.caller = WorkerThread /\ e.raised

\* C12 (checked under DispatchNoIdentitySpec): when call_from_thread refuses the
\* call with the re-entrancy error, _safe_call runs the action inline exactly
\* once and no error reaches its caller.
C12_ReentrancyRecovered ==
    \A e \in Range(dispatch_log) :
        e.cft = "reentrant_error" => e.inline = <<e.fn>> /\ ~e.raised

\* the UI thread dispatched while running, call_from_thread refused it, and
\* the action ran inline
C12_Witness ==
    \E e \in Range(dispatch_log) :
        /\ e.cft = "reentrant_error" /\ e.caller = UiThread /\ e.running
        /\ e.inline = <<e.fn>> /\ ~e.raised

\* extension i left a trace of being loaded: it was imported, its initializer
\* was called, it has a catalog entry or it contributed an allowed tool
Loaded(i) ==
    \/ i \in Range(imported)
    \/ \E c \in Range(init_calls) : c.ext = i
    \/ i \in DOMAIN mcp_servers
    \/ \E t \in Range(allowed_tools) : t[1] = i
    \/ i \in DOMAIN agent_options.mcp_servers
    \/ \E t \in Range(agent_options.allowed_tools) : t[1] = i

\* C19 as stated: a declared extension whose name is not in the enabled list
\* is never loaded.
C19_NotEnabledNeverLoaded ==
    \A i \in ExtNames \ ext_enabled : ~Loaded(i)

\* C19 amended: when the enabled list is not empty, a declared extension
\* whose name is not in it is never imported, never initialized, and has no
\* catalog entry and no allowed tool; an empty list enables every declared
\* extension.
C19_NotEnabledNeverLoadedWhenListed ==
    ext_enabled # {} => \A i \in ExtNames \ ext_enabled : ~Loaded(i)

\* a load with a non-empty enabled list that leaves a declared extension out
\* has loaded the listed ones and returned
C19_Witness ==
    /\ load_pc \in {"returned", "connected"}
    /\ ext_enabled # {}
    /\ ExtNames \ ext_enabled # {}
    /\ \E i \in ext_enabled : i \in DOMAIN mcp_servers

\* the declared extensions the configuration selects, in declaration order
SelectedInOrder ==
    SelectSeq([i \in ExtNames |-> i],
              LAMBDA i : IF ext_enabled = {} THEN TRUE ELSE i \in ext_enabled)

\* C20: once the load is over, the extensions it processed are exactly the
\* declared ones the enabled list selects (all of them when the list is
\* empty), in declaration order.
C20_ProcessedExactlySelected ==
    load_pc \in {"returned", "raised", "connected"} => imported = SelectedInOrder

----------------------------------------------------------------------------
(* Properties of the session history, checked under SessionSpec *)

\* the records, and the UI actions, that the event at position p produced
RecordsOf(p) == SelectSeq(session_history, LAMBDA r : r.src = p)
UiActionsOf(p) == SelectSeq(ui_log, LAMBDA u : u.src = p)

\* the record kinds a trigger can produce
KindsOf(trigger) ==
    IF trigger.kind = "input" THEN {"user_input"}
    ELSE CASE trigger.msg.role = "assistant" -> {"assistant_message", "assistant_todo"}
           [] trigger.msg.role = "user" -> {"tool_result"}
           [] trigger.msg.role = "system" -> {"system_message"}
           [] trigger.msg.role = "result" -> {"result_message"}
           [] OTHER -> {}

\* C13: the session history is an order-preserving image of what was observed:
\* every record belongs to an observed submission or backend event of its
\* kind, a record of a later trigger never precedes a record of an earlier
\* one, and the records of one event keep the order of its content items.
C13_RecordsInObservedOrder ==
    /\ \A n \in DOMAIN session_history :
          /\ session_history[n].src \in DOMAIN observed
          /\ session_history[n].event \in KindsOf(observed[session_history[n].src])
    /\ \A m, n \in DOMAIN session_history :
          m < n =>
             /\ session_history[m].src <= session_history[n].src
             /\ session_history[m].src = session_history[n].src =>
                   /\ session_history[n].event # "assistant_message"
                   /\ session_history[m].event = "tool_result" =>
                         session_history[m].payload.item < session_history[n].payload.item

\* a recorded submission followed by the records of two backend events
C13_Witness ==
    \E l, m, n \in DOMAIN session_history :
        /\ l < m /\ m < n
        /\ session_history[l].event = "user_input"
        /\ session_history[m].ctx = Classifier /\ session_history[n].ctx = Classifier
        /\ session_history[m].src < session_history[n].src

\* the position of the first TodoWrite tool-use in content (0: none)
FirstTodo(content) ==
    IF \E k \in DOMAIN content : content[k].type = "tool_use" /\ content[k].name = TodoWrite
    THEN CHOOSE k \in DOMAIN content :
            /\ content[k].type = "tool_use" /\ content[k].name = TodoWrite
            /\ \A j \in 1..(k - 1) : ~(content[j].type = "tool_use" /\ content[j].name = TodoWrite)
    ELSE 0

\* the items of content of a given type
ItemsOfType(content, type) == SelectSeq(content, LAMBDA c : c.type = type)

\* C14: for an assistant event with a TodoWrite tool-use (recorded by a
\* created session), the records of the event are the assistant_message
\* accumulated from the items before the TodoWrite item, if there is any such
\* item, followed by exactly one assistant_todo; and no item after the
\* TodoWrite item is rendered or recorded.
C14_TodoFlushesThenStops ==
    \A p \in DOMAIN observed :
        (/\ observed[p].kind = "backend"
         /\ observed[p].msg.role = "assistant"
         /\ FirstTodo(observed[p].msg.content) > 0
         /\ session_id # NoSession)
        => LET content == observed[p].msg.content
               before == SubSeq(content, 1, FirstTodo(content) - 1)
               recs == RecordsOf(p)
               acts == UiActionsOf(p)
           IN  /\ Len(recs) = (IF before = <<>> THEN 1 ELSE 2)
               /\ recs[Len(recs)].event = "assistant_todo"
               /\ before # <<>> =>
                     /\ recs[1].event = "assistant_message"
                     /\ Len(recs[1].payload.text_blocks) = Len(ItemsOfType(before, "text"))
                     /\ Len(recs[1].payload.thinking) = Len(ItemsOfType(before, "thinking"))
                     /\ Len(recs[1].payload.tool_calls) = Len(ItemsOfType(before, "tool_use"))
               /\ Len(SelectSeq(acts, LAMBDA u : u.fn = "add_message"))
                     = Len(ItemsOfType(before, "text"))
               /\ Len(SelectSeq(acts, LAMBDA u : u.fn = "add_tool_use"))
                     = Len(ItemsOfType(before, "tool_use"))
               /\ Len(SelectSeq(acts, LAMBDA u : u.fn = "add_todo_list")) = 1

\* an assistant event with content before its TodoWrite tool-use was handled
\* and both of its records were appended
C14_Witness ==
    \E p \in DOMAIN observed :
        /\ observed[p].kind = "backend"
        /\ observed[p].msg.role = "assistant"
        /\ FirstTodo(observed[p].msg.content) > 1
        /\ Len(RecordsOf(p)) > 1

IsPrefix(s, t) == Len(s) <= Len(t) /\ SubSeq(t, 1, Len(s)) = s

\* C15: the session history only grows at its end: in every step the history
\* before the step is a prefix of the history after it.
C15_AppendOnly == [][IsPrefix(session_history, session_history')]_vars

\* a history of several records, built by appends of both writers
C15_Witness ==
    /\ Len(session_history) > 1
    /\ \E r \in Range(session_history) : r.ctx = Classifier

\* C16 as stated: every record was appended by the event classifier in the
\* worker context.
C16_OnlyClassifierAppends ==
    \A r \in Range(session_history) : r.ctx = Classifier

\* C16 amended: the history has two writers: user_input records are appended
\* by on_input_submitted in the UI's context, every other record by the event
\* classifier in the worker context.
C16_WriterByKind ==
    \A r \in Range(session_history) :
        IF r.event = "user_input" THEN r.ctx = UiHandler ELSE r.ctx = Classifier

\* both writers have appended
C16_Witness ==
    /\ \E r \in Range(session_history) : r.event = "user_input" /\ r.ctx = UiHandler
    /\ \E r \in Range(session_history) : r.event # "user_input" /\ r.ctx = Classifier

\* C17: a failure of the save does not raise out of on_exit, and once on_exit
\* is over the agent client has been disconnected.
C17_SaveFailureContained ==
    /\ exit_result # "raised"
    /\ ui_phase = "exited" /\ exit_result # "disconnecting" => claude_client # "connected"

\* C18: the session is written at most once and not before shutdown; once
\* on_exit is over a created session has been written exactly once, and the
\* object written carries session_id, started_at, ended_at, cwd and a history
\* equal to everything the session recorded.
C18_PersistedOnceComplete ==
    /\ Len(persisted) <= 1
    /\ persisted # <<>> => ui_phase = "exited"
    /\ \A f \in Range(persisted) :
          /\ DOMAIN f = {"session_id", "started_at", "ended_at", "cwd", "history"}
          /\ f.session_id = session_id
    /\ (session_id # NoSession /\ exit_result \in {"returned", "raised"}) =>
          /\ Len(persisted) = 1
          /\ persisted[1].history = session_history

----------------------------------------------------------------------------
(* Properties of _format_duration, checked under DurationSpec *)

\* the components of a non-negative count of milliseconds
HoursIn(ms) == (ms \div 1000) \div 3600
MinutesIn(ms) == ((ms \div 1000) % 3600) \div 60
SecondsIn(ms) == (ms \div 1000) % 60

\* the string shows a component with the given unit letter
Shows(text, unit) == \E n \in DOMAIN text : text[n] = unit

\* _format_duration has returned for an integer count that is not negative
Formatted == result # <<>> /\ ~arg.none /\ arg.ms >= 0

\* C21 as stated: hours are shown exactly when non-zero, and minutes are
\* shown exactly when the minutes or the hours are non-zero.
C21_MinutesShownWithHours ==
    Formatted =>
        /\ Shows(result, "h") <=> HoursIn(arg.ms) # 0
        /\ Shows(result, "m") <=> (MinutesIn(arg.ms) # 0 \/ HoursIn(arg.ms) # 0)

\* C21 amended: hours are shown exactly when non-zero and minutes are shown
\* exactly when non-zero, whether or not the hours are shown; a whole number
\* of hours renders hours and seconds only.
C21_ZeroComponentsOmitted ==
    Formatted =>
        /\ Shows(result, "h") <=> HoursIn(arg.ms) # 0
        /\ Shows(result, "m") <=> MinutesIn(arg.ms) # 0
        /\ Shows(result, "s")

\* a duration with hours and no minutes was formatted
C21_Witness ==
    Formatted /\ HoursIn(arg.ms) # 0 /\ MinutesIn(arg.ms) = 0 /\ ~Shows(result, "m")

\* the last three characters of a string
LastThree(text) == SubSeq(text, Len(text) - 2, Len(text))

\* the two decimal digits of n < 100
TwoDigits(n) == <<Digits[(n \div 10) + 1], Digits[(n % 10) + 1]>>

\* C22: the string ends with the floored, clamped seconds as two digits and
\* "s"; a negative count renders as "00s", a missing one as "0s"; and the four
\* examples render as given.
C22_SecondsFlooredPadded ==
    result # <<>> =>
        /\ arg.none => result = <<"0", "s">>
        /\ (~arg.none /\ arg.ms < 0) => result = <<"0", "0", "s">>
        /\ (~arg.none /\ arg.ms >= 0) =>
              LastThree(result) = TwoDigits(SecondsIn(arg.ms)) \o <<"s">>
        /\ arg = Ms(500) => result = <<"0", "0", "s">>
        /\ arg = Ms(3000) => result = <<"0", "3", "s">>
        /\ arg = Ms(65000) => result = <<"0", "1", "m", " ", "0", "5", "s">>
        /\ arg = Ms(7325000) =>
              result = <<"0", "2", "h", " ", "0", "2", "m", " ", "0", "5", "s">>

\* the largest example was formatted
C22_Witness == arg = Ms(7325000) /\ result # <<>>

----------------------------------------------------------------------------
(* Properties of _json_safe, checked under JsonSpec *)

\* value holds only dicts, lists and primitives, at every depth
RECURSIVE Reduced(_)
Reduced(value) ==
    IF value.kind \in Primitives THEN TRUE
    ELSE IF value.kind = "list"
    THEN \A n \in DOMAIN value.items : Reduced(value.items[n])
    ELSE IF value.kind = "dict"
    THEN \A n \in DOMAIN value.entries : Reduced(value.entries[n][2])
    ELSE FALSE

\* C23: the reduction returns for every value (it is enabled whenever it has
\* not run), what it returns holds only mappings, sequences and primitives, an
\* opaque object is replaced by its string form, and reducing the returned
\* value again returns an equal value.
C23_TotalIdempotent ==
    /\ result = <<>> => ENABLED ApplyJsonSafe
    /\ Len(result) >= 1 =>
          /\ Reduced(result[1])
          /\ arg.kind = "object" => result[1] = PyStr(arg.repr)
    /\ Len(result) = 2 => result[2] = result[1]

\* a list holding an opaque object was reduced twice
C23_Witness ==
    /\ Len(result) = 2
    /\ arg = PyList(<<PyInt(1), PyObject(<<"<", "TextBlock", ">">>)>>)
    /\ result[1] # arg

\* every dict in value, at every depth, has string keys only, as the payloads
\* built by on_input_submitted and handle_message from literal keys and
\* JSON-decoded backend data have
RECURSIVE StringKeyed(_)
StringKeyed(value) ==
    IF value.kind \in {"list", "tuple"}
    THEN \A n \in DOMAIN value.items : StringKeyed(value.items[n])
    ELSE IF value.kind = "dict"
    THEN \A n \in DOMAIN value.entries :
            /\ value.entries[n][1].kind = "str"
            /\ StringKeyed(value.entries[n][2])
    ELSE TRUE

\* a payload as _append_session_event receives it
IsPayload(value) == value.kind = "dict" /\ StringKeyed(value)

\* C24: the payload kept in a record, the reduction of the payload passed in,
\* holds only JSON-representable values at every depth, so json.dump of it
\* does not raise.
C24_RecordedPayloadDumps ==
    (IsPayload(arg) /\ Len(result) >= 1) => (Reduced(result[1]) /\ JsonDumps(result[1]))

\* a payload with an opaque object inside a list was reduced
C24_Witness ==
    /\ arg = PyDict(<<<<PyStr(<<"text">>),
                       PyList(<<PyInt(1), PyObject(<<"<", "TextBlock", ">">>)>>)>>>>)
    /\ Len(result) >= 1
    /\ ~JsonDumps(arg)

----------------------------------------------------------------------------
(* The end-to-end scenario, checked under SessionSpec *)

\* the text occurs in the string
Contains(text, sub) ==
    \E n \in 1..(Len(text) - Len(sub) + 1) : SubSeq(text, n, n + Len(sub) - 1) = sub

\* the history starts with the record of the submitted text
StartsWithQuery(hist) ==
    /\ hist # <<>>
    /\ hist[1].event = "user_input"
    /\ hist[1].payload = [text |-> "query balance"]

\* the result event of the scenario
ResultAfter1200 == [kind |-> "backend", msg |-> [role |-> "result", duration_ms |-> Ms(1200)]]

\* C25: in a created session with an empty history, submitting "query
\* balance" makes the user_input record with that text the first record; and
\* when the result event with a duration of 1200 ms is then handled, whatever
\* backend events came between, the first record is still that one, the last
\* record is result_message and the last UI call renders the completion
\* message with "01s" in it.
C25_EndToEnd ==
    [][/\ (/\ session_id # NoSession
            /\ session_history = <<>>
            /\ observed' = Append(observed, [kind |-> "input", text |-> " query balance "]))
           => (Len(session_history') = 1 /\ StartsWithQuery(session_history'))
       /\ (/\ StartsWithQuery(session_history)
            /\ observed' = Append(observed, ResultAfter1200))
           => /\ StartsWithQuery(session_history')
              /\ session_history'[Len(session_history')].event = "result_message"
              /\ ui_log' # <<>>
              /\ ui_log'[Len(ui_log')].fn = "add_system_message"
              /\ Contains(ui_log'[Len(ui_log')].duration, <<"0", "1", "s">>)
      ]_vars

\* the scenario has run: the text, a backend event, the result event
C25_Witness ==
    /\ Len(observed) = 3
    /\ observed[1] = [kind |-> "input", text |-> " query balance "]
    /\ observed[2].kind = "backend"
    /\ observed[3] = ResultAfter1200
    /\ StartsWithQuery(session_history)
    /\ session_history[Len(session_history)].event = "result_message"
    /\ ui_log[Len(ui_log)].fn = "add_system_message"

----------------------------------------------------------------------------
(* Worker-to-UI isolation, checked under SessionSpec *)

\* the UI call was made by handle_user_input (src 0) or by handle_message for
\* a backend event, both of which run in the worker
MadeByWorker(u) == IF u.src = 0 THEN TRUE ELSE observed[u.src].kind = "backend"

\* C26: every UI call made in the worker context, by handle_user_input or
\* while a backend event is classified, reaches the widgets through
\* AgentController._safe_call; only handlers of UI events call a widget
\* directly.
C26_WorkerCallsThroughSafeCall ==
    \A n \in DOMAIN ui_log : MadeByWorker(ui_log[n]) => ui_log[n].via = "_safe_call"

\* a command was handled by the UI handler and a backend event by the worker
C26_Witness ==
    /\ \E n \in DOMAIN ui_log : ~MadeByWorker(ui_log[n]) /\ ui_log[n].via = "msg_log"
    /\ \E n \in DOMAIN ui_log :
          /\ ui_log[n].src # 0
          /\ MadeByWorker(ui_log[n])
          /\ ui_log[n].via = "_safe_call"

----------------------------------------------------------------------------
(* Startup with an incomplete configuration, checked under StartupSpec *)

\* the sections init() has a "Missing ... configuration" error for
RequiredSections == {"environment", "model", "agent"}

\* the configuration lacks a required section
LacksRequiredSection == \E k \in RequiredSections : config[k] = "absent"

\* C27: when the configuration lacks a required section, init() fails and
\* the agent runtime is never constructed or connected.
C27_MissingSectionIsFatal ==
    LacksRequiredSection => (init_pc \in {"pending", "failed"} /\ claude_client = "none")

\* C28: when the configuration lacks the environment section, the section
\* whose absence init() detects, the UI is not running unless that error has
\* already been raised.
C28_NoUiBeforeConfigError ==
    (config["environment"] = "absent" /\ ui_phase = "running") => init_pc = "failed"

----------------------------------------------------------------------------
(* The working directories of two runs, checked under WorkdirSpec *)

\* C29: once both runs have provisioned their working directory, the two
\* directories are distinct, whenever the runs were started.
C29_WorkdirsDistinct ==
    (result[1] # NoDir /\ result[2] # NoDir) => result[1] # result[2]

----------------------------------------------------------------------------
(* Tool results of a user-role message, checked under SessionSpec *)

\* the number of elements of seq that satisfy Test
CountOf(seq, Test(_)) == Len(SelectSeq(seq, Test))

\* C30: for every user-role message handled, each tool-result item that does
\* not carry the planning-tool marker has exactly one result block rendered
\* with its error flag and exactly one tool_result record with its error
\* flag, whatever items precede it in the message.
C30_EachPlainResultOnce ==
    \A p \in DOMAIN observed :
        (observed[p].kind = "backend" /\ observed[p].msg.role = "user") =>
            \A n \in DOMAIN observed[p].msg.content :
                LET c == observed[p].msg.content[n]
                IN  (c.type = "tool_result" /\ ~c.marker) =>
                        /\ CountOf(ui_log, LAMBDA u :
                                /\ u.fn = "add_tool_use_result"
                                /\ u.src = p
                                /\ u.item = n
                                /\ u.is_error = c.is_error) = 1
                        /\ CountOf(session_history, LAMBDA r :
                                /\ r.event = "tool_result"
                                /\ r.src = p
                                /\ r.payload.item = n
                                /\ r.payload.is_error = c.is_error) = 1

\* C31: for every user-role message handled, a tool-result item that carries
\* the planning-tool marker, as a string or inside structured content, has no
\* result block rendered and no tool_result record.
C31_MarkerItemSuppressed ==
    \A p \in DOMAIN observed :
        (observed[p].kind = "backend" /\ observed[p].msg.role = "user") =>
            \A n \in DOMAIN observed[p].msg.content :
                LET c == observed[p].msg.content[n]
                IN  (c.type = "tool_result" /\ c.marker) =>
                        /\ CountOf(ui_log, LAMBDA u : u.src = p /\ u.item = n) = 0
                        /\ CountOf(session_history, LAMBDA r :
                                r.src = p /\ r.payload.item = n) = 0

----------------------------------------------------------------------------
(* The records of assistant, system and result events, under SessionSpec *)

\* the number of records of the given kind made for the trigger at position p
RecordCount(p, kind) ==
    CountOf(session_history, LAMBDA r : r.src = p /\ r.event = kind)

\* the items of an assistant event that are text, thinking or tool-use
Contributes(content) ==
    \E k \in DOMAIN content : content[k].type \in {"text", "thinking", "tool_use"}

\* C32: an assistant event without a TodoWrite tool-use has exactly one
\* assistant_message record if it has any text, tool-call or thinking item and
\* none otherwise; and no assistant event has more than one assistant_message
\* record or more than one assistant_todo record.
C32_OneAssistantRecord ==
    \A p \in DOMAIN observed :
        (observed[p].kind = "backend" /\ observed[p].msg.role = "assistant") =>
            LET content == observed[p].msg.content
            IN  /\ FirstTodo(content) = 0 =>
                      RecordCount(p, "assistant_message") = (IF Contributes(content) THEN 1 ELSE 0)
                /\ RecordCount(p, "assistant_message") <= 1
                /\ RecordCount(p, "assistant_todo") <= 1

\* an assistant event with a text and a tool call was recorded once
C32_Witness ==
    \E p \in DOMAIN observed :
        /\ observed[p].kind = "backend"
        /\ observed[p].msg.role = "assistant"
        /\ Len(observed[p].msg.content) = 2
        /\ FirstTodo(observed[p].msg.content) = 0
        /\ RecordCount(p, "assistant_message") = 1

\* handle_message runs for a system event with subtype s
SystemStep(s) ==
    observed' = Append(observed, [kind |-> "backend", msg |-> [role |-> "system", subtype |-> s]])

\* C33: handling a system event appends exactly one record, a system_message
\* with the subtype and the content; for the subtype "init" the indicator is
\* asserted with the default text, for any other subtype the indicator and
\* the UI are left as they were.
C33_SystemEventRecorded ==
    [][\A s \in {"init", "status"} :
          SystemStep(s) =>
              /\ Len(session_history') = Len(session_history) + 1
              /\ IsPrefix(session_history, session_history')
              /\ session_history'[Len(session_history')].event = "system_message"
              /\ session_history'[Len(session_history')].payload
                     = [subtype |-> s, content |-> "None"]
              /\ IF s = "init"
                 THEN /\ work_indicator' = [on |-> TRUE, message |-> DefaultIndicator]
                      /\ Len(ui_log') = Len(ui_log) + 1
                      /\ ui_log'[Len(ui_log')].fn = "set_work_indicator"
                 ELSE /\ work_indicator' = work_indicator
                      /\ ui_log' = ui_log
      ]_vars

\* a system event of another subtype was handled while the indicator showed
\* the text of a plan
C33_Witness ==
    /\ Len(observed) = 3
    /\ observed[3] = [kind |-> "backend", msg |-> [role |-> "system", subtype |-> "status"]]
    /\ RecordCount(3, "system_message") = 1
    /\ work_indicator = [on |-> TRUE, message |-> IndicatorMessage(TodoInProgress)]

\* handle_message runs for a result event with duration d
ResultStep(d) ==
    observed' = Append(observed, [kind |-> "backend", msg |-> [role |-> "result", duration_ms |-> d]])

\* C34: handling a result event turns the indicator off, then renders one
\* completion message with the formatted duration, both after every UI action
\* of the earlier events, and appends exactly one result_message record with
\* the duration, the usage and the metadata after every earlier record.
C34_ResultClearsRendersRecords ==
    [][\A d \in {Ms(1200)} :
          ResultStep(d) =>
              /\ ~work_indicator'.on
              /\ work_indicator'.message = work_indicator.message
              /\ Len(ui_log') = Len(ui_log) + 2
              /\ IsPrefix(ui_log, ui_log')
              /\ ui_log'[Len(ui_log) + 1].fn = "set_work_indicator"
              /\ ~ui_log'[Len(ui_log) + 1].on
              /\ ui_log'[Len(ui_log) + 2].fn = "add_system_message"
              /\ ui_log'[Len(ui_log) + 2].duration = FormatDuration(d)
              /\ Len(session_history') = Len(session_history) + 1
              /\ IsPrefix(session_history, session_history')
              /\ session_history'[Len(session_history')].event = "result_message"
              /\ session_history'[Len(session_history')].payload
                     = [duration_ms |-> d, usage |-> "None", metadata |-> "None"]
      ]_vars

\* a result event was handled between two other events
C34_Witness ==
    /\ Len(observed) = 3
    /\ observed[2] = ResultAfter1200
    /\ observed[3].kind = "backend"
    /\ RecordCount(2, "result_message") = 1
    /\ CountOf(ui_log, LAMBDA u : u.src = 2 /\ u.fn = "add_system_message") = 1

----------------------------------------------------------------------------
(* Initializer calls and marker-less modules, checked under ExtSpec *)

\* the initializer of a module of kind k accepts a third parameter or
\* variadic arguments
AcceptsContext(k) ==
    IF SignatureOf(k).positional >= 3 THEN TRUE
    ELSE IF SignatureOf(k).var_positional THEN TRUE
    ELSE SignatureOf(k).var_keyword

\* C35: when init() passes a context, every extension that was loaded and
\* exports an initializer has exactly one call of it, made with three
\* arguments if its signature accepts a third parameter or variadic arguments
\* and with two otherwise, and no call fails on the number of arguments.
C35_InitializerCalledOnceWithContext ==
    (ext_ctx /\ load_pc = "returned") =>
        /\ \A i \in ExtNames :
              (SelectedForLoad(ext_enabled, i) /\ HasInit(ext_modules[i])) =>
                  Cardinality({n \in DOMAIN init_calls : init_calls[n].ext = i}) = 1
        /\ \A n \in DOMAIN init_calls :
              /\ init_calls[n].nargs
                    = (IF AcceptsContext(ext_modules[init_calls[n].ext]) THEN 3 ELSE 2)
              /\ ~init_calls[n].type_error

\* C36: an iteration of the load over a module that exports none of the
\* markers leaves the tool catalog and the allowed-tool list as they were.
C36_BareModuleContributesNothing ==
    [][(/\ load_pc = "loop"
        /\ load_i <= NumExt
        /\ ext_modules[load_i] = "bare"
        /\ load_i' = load_i + 1)
       => (mcp_servers' = mcp_servers /\ allowed_tools' = allowed_tools)
      ]_vars

----------------------------------------------------------------------------
(* Executions of a dispatched action, checked under DispatchSpec *)

\* how often the action of dispatch e was started: inline by _safe_call, and
\* on the loop when call_from_thread got as far as running it
Executions(e) ==
    Len(e.inline) + (IF RanOnLoop(e.cft) THEN Len(e.marshalled) ELSE 0)

----------------------------------------------------------------------------
(* Submitted texts and their records, checked under SessionSpec *)

\* the observations that are submissions of a text for the agent
QueryInputs ==
    {n \in DOMAIN observed :
        /\ observed[n].kind = "input"
        /\ Strip(observed[n].text) # ""
        /\ ~IsCommand(Strip(observed[n].text))}

\* the observations that are submissions of a slash command
CommandInputs ==
    {n \in DOMAIN observed :
        observed[n].kind = "input" /\ IsCommand(Strip(observed[n].text))}

\* the observation that started worker w: run_worker is called once per
\* submitted text, in order
SubmissionOf(w) ==
    CHOOSE n \in QueryInputs : Cardinality({m \in QueryInputs : m <= n}) = w

\* the text of submission n is in the history, ahead of every record of a
\* later observation
RecordedFirst(n) ==
    \E i \in DOMAIN session_history :
        /\ session_history[i].event = "user_input"
        /\ session_history[i].src = n
        /\ session_history[i].payload = [text |-> Strip(observed[n].text)]
        /\ \A j \in DOMAIN session_history :
              session_history[j].src > n => j > i

\* C38: a submitted text that was handed to the agent runtime is in the
\* history as user_input ahead of every record of a later event, whenever it
\* was submitted; a slash command starts no worker and leaves no record.
C38_HandedInputsRecorded ==
    /\ Len(workers) = Cardinality(QueryInputs)
    /\ \A w \in DOMAIN workers :
          workers[w] = "receiving" => RecordedFirst(SubmissionOf(w))
    /\ \A n \in CommandInputs :
          \A r \in Range(session_history) : r.src # n

\* a text submitted before the session existed was not handed on, a later one
\* was and has a backend record after its own
C38_Witness ==
    /\ Len(workers) = 2
    /\ workers[1] \in {"returned", "raised"}
    /\ \A r \in Range(session_history) : r.src # SubmissionOf(1)
    /\ workers[2] = "receiving"
    /\ RecordedFirst(SubmissionOf(2))
    /\ \E r \in Range(session_history) : r.src > SubmissionOf(2)

----------------------------------------------------------------------------
(* Several receive loops over one event stream, checked under SessionSpec *)

\* the entries of seq made for observation p, in order
TraceOf(seq, p) == SelectSeq(seq, LAMBDA e : e.src = p)

\* what one run of handle_message on observation p records and renders
OneClassification(p) ==
    Classify(observed[p].msg, [hist |-> <<>>, ui |-> <<>>, ind |-> IndicatorOff], p)

\* worker starts that turned the indicator on, i.e. receive loops begun
LoopStarts(ui) ==
    {n \in DOMAIN ui : ui[n].src = 0 /\ ui[n].fn = "set_work_indicator"}

----------------------------------------------------------------------------
(* The working-progress indicator, checked under SessionSpec *)

\* the queries sent to the agent: the workers that passed query()
Queried == Cardinality({w \in DOMAIN workers : workers[w] = "receiving"})

\* the result events received so far
Results ==
    Cardinality({p \in DOMAIN observed :
                    observed[p].kind = "backend" /\ observed[p].msg.role = "result"})

\* C40: while the session runs and every submitted text has been sent as a
\* query, the indicator is on exactly when some query has not had its result
\* event yet: a result for one query
\* does not clear it while another is in progress, and nothing turns it back
\* on after the last result.
C40_IndicatorTracksOutstanding ==
    (/\ claude_client = "connected"
     /\ exit_result = "pending"
     /\ \A w \in DOMAIN workers : workers[w] = "receiving") =>
        (work_indicator.on <=> Queried > Results)

====
